---- MODULE Spec2Model ----
(***************************************************************************)
(* A model of the synotra-vscode language core: the line-oriented block    *)
(* parser, the scope resolver, the type-inference engine (the monolithic   *)
(* engine of src/src/inference.ts and the engine assembled from the        *)
(* components under inference/engine) and the type registry.               *)
(*                                                                         *)
(* Source text is modelled character by character: a line is a sequence of *)
(* one-character strings, a document a sequence of lines.  The regular     *)
(* expressions of the source are operators over such sequences.  Line      *)
(* numbers are 0-based as in the source; line i of a document is           *)
(* lines[i + 1].                                                           *)
(***************************************************************************)
EXTENDS Integers, Sequences, FiniteSets, TLC

VARIABLES
    input,                  \* what the document was written from (<<>>: nothing on record)
    text,                   \* Parser.lines: the document, a sequence of lines
    ast,                    \* the tree returned by Parser.parse (<<>>: not parsed yet)
    queryLine,              \* the line of the last getSymbolsAtLine call
    symbols,                \* the result of the last getSymbolsAtLine call
    soughtName,             \* the name of the last getDefinition call (<<>>: none)
    foundNode,              \* what that getDefinition call returned: <<>> (null) or <<node>>
    types,                  \* inference.ts InferenceEngine.types
    functionReturnTypes,    \* inference.ts InferenceEngine.functionReturnTypes
    engineTypes,            \* part_012 InferenceEngine.types
    engineFunctionReturnTypes, \* part_012 InferenceEngine.functionReturnTypes
    sharedTypes,            \* the Map the components of part_012 received at construction
    sharedFunctionReturnTypes, \* the return-type Map those components received
    result,                 \* the map returned by the last inferFromText call
    lastRun,                \* the last run: its engine, its text, the maps its passes started from
    runs,                   \* number of inferFromText calls made so far
    scanned,                \* number of lines the loop of scanCollectionUsages has gone through in the last run
    mergeArgs,              \* the arguments (a, b) handed to mergeTypes
    merged,                 \* the value mergeTypes returned for them
    userTypes,              \* TypeRegistry.userTypes
    instanceType,           \* the argument of the last getMethodsForType call
    methods,                \* the list getMethodsForType returned
    collectedFrom,          \* the <<tree, lines>> of the last collectUserTypes call (<<>>: none)
    lookupName,             \* the argument of the last getTypeDefinition call (<<>>: none)
    definition,             \* what that getTypeDefinition call returned
    documents,              \* the workspace: per uri None (closed) or Some([version, text])
    cache,                  \* DocumentInferenceService.cache: uri -> [version, ast, types], types a reference
    maps,                   \* the Map objects the engines have created; a reference is an index
    typesRef,               \* inference.ts InferenceEngine.types, as a reference
    engineTypesRef,         \* part_012 InferenceEngine.types, as a reference
    returnedRefs,           \* the references inferFromText has returned so far
    returned                \* what the last getInferenceResult call returned (<<>>: none)

parserVars == <<text, ast>>
scopeVars == <<queryLine, symbols, soughtName, foundNode>>
monoVars == <<types, functionReturnTypes>>
modularVars == <<engineTypes, engineFunctionReturnTypes, sharedTypes,
                 sharedFunctionReturnTypes>>
runVars == <<result, lastRun, runs, scanned>>
mergeVars == <<mergeArgs, merged>>
registryVars == <<userTypes, instanceType, methods, collectedFrom, lookupName,
                  definition>>
heapVars == <<maps, typesRef, engineTypesRef, returnedRefs>>
serviceVars == <<documents, cache, returned>>
vars == <<input, text, ast, queryLine, symbols, soughtName, foundNode, types, functionReturnTypes,
          engineTypes, engineFunctionReturnTypes, sharedTypes,
          sharedFunctionReturnTypes, result, lastRun, runs, scanned, mergeArgs,
          merged,
          userTypes, instanceType, methods, collectedFrom, lookupName,
          definition, documents, cache, maps, typesRef, engineTypesRef,
          returnedRefs, returned>>

-----------------------------------------------------------------------------
(* Characters and strings *)

Min(S) == CHOOSE x \in S : \A y \in S : x <= y

Max(S) == CHOOSE x \in S : \A y \in S : x >= y

Lower == {"a","b","c","d","e","f","g","h","i","j","k","l","m",
          "n","o","p","q","r","s","t","u","v","w","x","y","z"}

Upper == {"A","B","C","D","E","F","G","H","I","J","K","L","M",
          "N","O","P","Q","R","S","T","U","V","W","X","Y","Z"}

Digit == {"0","1","2","3","4","5","6","7","8","9"}

\* the element of a one-element set: Only({e(x) : x \in {v}}) is e(v), with v
\* computed once
Only(S) == CHOOSE x \in S : TRUE

\* [a-zA-Z_]
IsIdStart(c) == c \in Lower \cup Upper \cup {"_"}

\* [a-zA-Z0-9_], also the class \w that decides \b
IsIdChar(c) == c \in Lower \cup Upper \cup Digit \cup {"_"}

\* \s (a line holds no line terminator)
IsSpace(c) == c \in {" ", "\t"}

\* lit occurs in s at position i
StartsWithAt(s, i, lit) ==
    /\ i >= 1
    /\ i + Len(lit) - 1 <= Len(s)
    /\ SubSeq(s, i, i + Len(lit) - 1) = lit

\* String.prototype.includes
Includes(s, lit) == \E i \in 1..Len(s) : StartsWithAt(s, i, lit)

\* the first position at or after i that holds no white space (Len(s) + 1: none)
SkipSpaces(s, i) ==
    Min({j \in i..(Len(s) + 1) : j = Len(s) + 1 \/ ~IsSpace(s[j])})

\* the position after the identifier characters that start at i
IdentEnd(s, i) ==
    Min({j \in i..(Len(s) + 1) : j = Len(s) + 1 \/ ~IsIdChar(s[j])})

\* String.prototype.trim
Trim(s) ==
    LET keep == {i \in 1..Len(s) : ~IsSpace(s[i])}
    IN  IF keep = {} THEN <<>> ELSE SubSeq(s, Min(keep), Max(keep))

\* \b in front of a word character at position i
WordBoundaryBefore(s, i) == i = 1 \/ ~IsIdChar(s[i - 1])

\* kw\s+[a-zA-Z_] matches at position i
KwIdentAt(s, i, kw) ==
    /\ StartsWithAt(s, i, kw)
    /\ i + Len(kw) <= Len(s)
    /\ IsSpace(s[i + Len(kw)])
    /\ LET j == SkipSpaces(s, i + Len(kw))
       IN  j <= Len(s) /\ IsIdStart(s[j])

\* the identifier that kw\s+([a-zA-Z_][a-zA-Z0-9_]*) captures at position i
KwIdentName(s, i, kw) ==
    LET j == SkipSpaces(s, i + Len(kw))
    IN  SubSeq(s, j, IdentEnd(s, j) - 1)

\* the decimal digits of a natural number, as String(n) gives them
RECURSIVE IntToChars(_)
IntToChars(n) ==
    LET d == <<"0","1","2","3","4","5","6","7","8","9">>[(n % 10) + 1]
    IN  IF n < 10 THEN <<d>> ELSE Append(IntToChars(n \div 10), d)

-----------------------------------------------------------------------------
(* Parser (src/unnamed/part_004) *)

KwClass == <<"c","l","a","s","s">>
KwActor == <<"a","c","t","o","r">>
KwFun == <<"f","u","n">>
KwVar == <<"v","a","r">>
KwVal == <<"v","a","l">>

\* line.match(/\bclass\s+([a-zA-Z_][a-zA-Z0-9_]*)/): <<>> or <<name>>
ClassMatch(line) ==
    LET P == {i \in 1..Len(line) :
                WordBoundaryBefore(line, i) /\ KwIdentAt(line, i, KwClass)}
    IN  IF P = {} THEN <<>> ELSE <<KwIdentName(line, Min(P), KwClass)>>

\* line.match(/\bactor\s+([a-zA-Z_][a-zA-Z0-9_]*)/): <<>> or <<name>>
ActorMatch(line) ==
    LET P == {i \in 1..Len(line) :
                WordBoundaryBefore(line, i) /\ KwIdentAt(line, i, KwActor)}
    IN  IF P = {} THEN <<>> ELSE <<KwIdentName(line, Min(P), KwActor)>>

\* line.match(/(?:io\s+)?fun\s+([a-zA-Z_][a-zA-Z0-9_]*)/): <<>> or <<name>>.
\* The optional io prefix moves the start of the match, not the captured name.
FunMatch(line) ==
    LET P == {i \in 1..Len(line) : KwIdentAt(line, i, KwFun)}
    IN  IF P = {} THEN <<>> ELSE <<KwIdentName(line, Min(P), KwFun)>>

\* line.match(/\b(var|val)\s+([a-zA-Z_][a-zA-Z0-9_]*)/): <<>> or <<keyword, name>>
VarMatch(line) ==
    LET P == {i \in 1..Len(line) :
                /\ WordBoundaryBefore(line, i)
                /\ KwIdentAt(line, i, KwVar) \/ KwIdentAt(line, i, KwVal)}
    IN  IF P = {} THEN <<>>
        ELSE <<SubSeq(line, Min(P), Min(P) + 2), KwIdentName(line, Min(P), KwVar)>>

\* a condition that takes the words only at the start of the line
IsBlockLineAtStart(line) ==
    \/ StartsWithAt(line, 1, <<"w","h","i","l","e">>)
    \/ StartsWithAt(line, 1, <<"i","f">>)
    \/ StartsWithAt(line, 1, <<"e","l","s","e">>)
    \/ StartsWithAt(line, 1, <<"f","o","r">>)

\* the condition that opens a nested block
IsBlockLine(line) ==
    \/ Includes(line, <<"w","h","i","l","e">>)
    \/ Includes(line, <<"i","f">>)
    \/ Includes(line, <<"e","l","s","e">>)
    \/ Includes(line, <<"f","o","r">>)

\* the number of characters ch among the first k of a line
CountUpTo(line, k, ch) == Cardinality({j \in 1..k : line[j] = ch})

\* Parser.findBlockEnd: the loop from line i on, braceCount and foundStart as
\* the lines before i left them.  The inner loop returns at the first "}" of
\* the line that brings the count to 0 once a "{" has been seen.
RECURSIVE FindBlockEndFrom(_, _, _, _)
FindBlockEndFrom(lines, i, braceCount, foundStart) ==
    IF i >= Len(lines) THEN Len(lines) - 1
    ELSE LET line == lines[i + 1]
             returns == {k \in 1..Len(line) :
                            /\ line[k] = "}"
                            /\ foundStart \/ CountUpTo(line, k, "{") > 0
                            /\ braceCount + CountUpTo(line, k, "{")
                                   - CountUpTo(line, k, "}") = 0}
         IN  IF returns # {} THEN i
             ELSE FindBlockEndFrom(lines, i + 1,
                      braceCount + CountUpTo(line, Len(line), "{")
                          - CountUpTo(line, Len(line), "}"),
                      foundStart \/ CountUpTo(line, Len(line), "{") > 0)

\* the places <<line, column>> of the character ch from the start of line
\* startLine up to column k of line j (lines counted from 0, columns from 1)
BracePlaces(lines, startLine, j, k, ch) ==
    {pl \in UNION {{<<a, b>> : b \in 1..Len(lines[a + 1])} : a \in startLine..j} :
        /\ lines[pl[1] + 1][pl[2]] = ch
        /\ pl[1] < j \/ pl[2] <= k}

\* the character at column k of line j is a closing brace that brings the
\* count of braces opened from line startLine on back to zero
ClosedAt(lines, startLine, j, k) ==
    /\ lines[j + 1][k] = "}"
    /\ BracePlaces(lines, startLine, j, k, "{") # {}
    /\ Cardinality(BracePlaces(lines, startLine, j, k, "{"))
           = Cardinality(BracePlaces(lines, startLine, j, k, "}"))

\* no closing brace closes the block declared on line startLine
Unclosed(lines, startLine) ==
    \A j \in startLine..(Len(lines) - 1) :
        \A k \in 1..Len(lines[j + 1]) : ~ClosedAt(lines, startLine, j, k)

\* an unclosed block ends on its own first line
FindBlockEndOrStart(lines, startLine) ==
    IF Unclosed(lines, startLine) THEN startLine
    ELSE FindBlockEndFrom(lines, startLine, 0, FALSE)

FindBlockEnd(lines, startLine) == FindBlockEndFrom(lines, startLine, 0, FALSE)

\* Records list their fields in the order in which the names first appear in
\* this module, which is the order TLC keeps them in.
\*
\* An ASTNode.  The tree is an arena: a sequence of nodes in creation order,
\* parent the index of the parent node (0 for the root); the children of a
\* node are the nodes that name it as parent, in creation order, which is the
\* order in which the parser pushes them.
Node(kind, name, line, startLine, endLine, parent) ==
    [line |-> line, startLine |-> startLine, kind |-> kind, name |-> name,
     endLine |-> endLine, parent |-> parent]

Children(tree, id) ==
    SelectSeq([k \in 1..Len(tree) |-> k], LAMBDA k : tree[k].parent = id)

\* Parser.parseBlockContent: the loop from line i on, nodes the arena so far
RECURSIVE ParseBlockContent(_, _, _, _, _)
ParseBlockContent(lines, parent, i, endLine, nodes) ==
    IF i > endLine THEN nodes
    ELSE LET line == lines[i + 1]
             blockEnd == FindBlockEnd(lines, i)
             id == Len(nodes) + 1
         IN  IF FunMatch(line) # <<>>
             THEN ParseBlockContent(lines, parent, blockEnd + 1, endLine,
                    ParseBlockContent(lines, id, i + 1, blockEnd,
                      Append(nodes, Node("function", FunMatch(line)[1], i, i,
                                         blockEnd, parent))))
             ELSE IF VarMatch(line) # <<>>
             THEN ParseBlockContent(lines, parent, i + 1, endLine,
                    Append(nodes, Node("variable", VarMatch(line)[2], i, i, i,
                                       parent)))
             ELSE IF IsBlockLine(line)
             THEN ParseBlockContent(lines, parent, blockEnd + 1, endLine,
                    ParseBlockContent(lines, id, i + 1, blockEnd,
                      Append(nodes, Node("block",
                                         <<"b","l","o","c","k","_">> \o IntToChars(i),
                                         i, i, blockEnd, parent))))
             ELSE ParseBlockContent(lines, parent, i + 1, endLine, nodes)

\* Parser.parseTopLevel: the loop from line i on
RECURSIVE ParseTopLevel(_, _, _, _, _)
ParseTopLevel(lines, parent, i, endLine, nodes) ==
    IF i > endLine THEN nodes
    ELSE LET line == lines[i + 1]
             blockEnd == FindBlockEnd(lines, i)
             id == Len(nodes) + 1
         IN  IF ClassMatch(line) # <<>>
             THEN ParseTopLevel(lines, parent, i + 1, endLine,
                    Append(nodes, Node("class", ClassMatch(line)[1], i, i, i,
                                       parent)))
             ELSE IF ActorMatch(line) # <<>>
             THEN ParseTopLevel(lines, parent, blockEnd + 1, endLine,
                    ParseBlockContent(lines, id, i + 1, blockEnd,
                      Append(nodes, Node("actor", ActorMatch(line)[1], i, i,
                                         blockEnd, parent))))
             ELSE ParseTopLevel(lines, parent, i + 1, endLine, nodes)

\* Parser.parse: the root is node 1
ParseLines(lines) ==
    ParseTopLevel(lines, 1, 0, Len(lines) - 1,
        <<Node("program", <<"r","o","o","t">>, 0, 0, Len(lines) - 1, 0)>>)

-----------------------------------------------------------------------------
(* ScopeResolver (src/unnamed/part_006) *)

\* ScopeResolver.findNode from node id: the node itself when it has the name,
\* else the first hit among its children in order, else 0 (null)
RECURSIVE FindNode(_, _, _)
FindNode(tree, id, name) ==
    IF tree[id].name = name THEN id
    ELSE LET hit[k \in 0..Len(Children(tree, id))] ==
                 IF k = 0 THEN 0
                 ELSE IF hit[k - 1] # 0 THEN hit[k - 1]
                 ELSE FindNode(tree, Children(tree, id)[k], name)
         IN  hit[Len(Children(tree, id))]

\* ScopeResolver.getDefinition: the search starts at the root
GetDefinition(tree, name) ==
    IF FindNode(tree, 1, name) = 0 THEN <<>>
    ELSE <<tree[FindNode(tree, 1, name)]>>

SymbolInfo(name, kind, line, node) ==
    [line |-> line, kind |-> kind, name |-> name, node |-> node]

\* the guard of collectVisibleSymbols: the node's span holds the line
SpanContains(node, line) == ~(line < node.startLine \/ line > node.endLine)

\* the guard on a variable child: declared at or before the line
DeclaredByLineAlways(child, line) == TRUE

DeclaredByLine(child, line) == line >= child.line

\* what the loop body pushes for one child
PushChild(tree, c, line, syms) ==
    LET child == tree[c]
    IN  IF child.kind = "variable"
        THEN IF DeclaredByLine(child, line)
             THEN Append(syms, SymbolInfo(child.name, "Variable", child.line, c))
             ELSE syms
        ELSE IF child.kind = "function"
        THEN Append(syms, SymbolInfo(child.name, "Function", child.line, c))
        ELSE IF child.kind = "class" \/ child.kind = "actor"
        THEN Append(syms, SymbolInfo(child.name, "Class", child.line, c))
        ELSE syms

\* ScopeResolver.collectVisibleSymbols; kids is the part of node's child
\* list the loop has still to visit
RECURSIVE CollectVisibleSymbols(_, _, _, _)
RECURSIVE CollectFromChildren(_, _, _, _)
CollectFromChildren(tree, kids, line, syms) ==
    IF kids = <<>> THEN syms
    ELSE CollectFromChildren(tree, Tail(kids), line,
            CollectVisibleSymbols(tree, Head(kids), line,
                PushChild(tree, Head(kids), line, syms)))

CollectVisibleSymbols(tree, node, line, syms) ==
    IF ~SpanContains(tree[node], line)
    THEN syms
    ELSE CollectFromChildren(tree, Children(tree, node), line, syms)

GetSymbolsAtLine(tree, line) == CollectVisibleSymbols(tree, 1, line, <<>>)

-----------------------------------------------------------------------------
(* Type descriptors (TypeInfo) and maps *)

\* An optional field: None when undefined, Some(x) when it holds x.
None == <<>>
Some(x) == <<x>>

\* make(kind, generics?, readonlyName?, hasTypeAnnotation?)
Make(kind, generics, readonlyName, hasTypeAnnotation) ==
    [kind |-> kind, generics |-> generics, readonlyName |-> readonlyName,
     hasTypeAnnotation |-> hasTypeAnnotation]

\* make(kind)
MakeKind(kind) == Make(kind, None, None, None)

\* make(kind, generics)
MakeGeneric(kind, generics) == Make(kind, Some(generics), None, None)

\* a Map<string, TypeInfo> is a function from its keys
EmptyMap == <<>>
MapHas(m, k) == k \in DOMAIN m
MapSet(m, k, v) == [x \in (DOMAIN m) \cup {k} |-> IF x = k THEN v ELSE m[x]]

-----------------------------------------------------------------------------
(* TypeParser (src/src/inference/engine/typeParser.ts) *)

SInt == <<"I","n","t">>
SString == <<"S","t","r","i","n","g">>
SBool == <<"B","o","o","l">>
SList == <<"L","i","s","t">>
SMutableMap == <<"M","u","t","a","b","l","e","M","a","p">>
SMutableSet == <<"M","u","t","a","b","l","e","S","e","t">>
SFunction == <<"F","u","n","c","t","i","o","n">>

\* TypeParser.typeNameToKind
TypeNameToKind(name) ==
    IF name = SInt THEN "Int"
    ELSE IF name = SString THEN "String"
    ELSE IF name = SBool THEN "Bool"
    ELSE IF name = SList THEN "List"
    ELSE IF name = SMutableMap THEN "MutableMap"
    ELSE IF name = SMutableSet THEN "MutableSet"
    ELSE IF name = SFunction THEN "Function"
    ELSE "Custom"

IsOpenBracket(ch) == ch \in {"(", "[", "{", "<"}

IsCloseBracket(ch) == ch \in {")", "]", "}", ">"}

\* a split condition that takes every comma
SplitsAtAnyComma(ch, depth) == ch = ","

\* the split condition of parseCommaSeparated
SplitsAt(ch, depth) == ch = "," /\ depth = 0

\* TypeParser.parseCommaSeparated: the loop from character k on
RECURSIVE ParseCommaSeparatedFrom(_, _, _, _, _)
ParseCommaSeparatedFrom(s, k, current, depth, args) ==
    IF k > Len(s)
    THEN IF Trim(current) # <<>> THEN Append(args, Trim(current)) ELSE args
    ELSE LET ch == s[k]
         IN  IF IsOpenBracket(ch)
             THEN ParseCommaSeparatedFrom(s, k + 1, Append(current, ch), depth + 1, args)
             ELSE IF IsCloseBracket(ch)
             THEN ParseCommaSeparatedFrom(s, k + 1, Append(current, ch), depth - 1, args)
             ELSE IF SplitsAt(ch, depth)
             THEN ParseCommaSeparatedFrom(s, k + 1, <<>>, depth,
                                          Append(args, Trim(current)))
             ELSE ParseCommaSeparatedFrom(s, k + 1, Append(current, ch), depth, args)

ParseCommaSeparated(s) == ParseCommaSeparatedFrom(s, 1, <<>>, 0, <<>>)

\* trimmed.match(/^([a-zA-Z_][a-zA-Z0-9_]*)\s*<(.+)>$/): <<>> or <<name, content>>
GenericMatch(trimmed) ==
    IF Len(trimmed) >= 1 /\ IsIdStart(trimmed[1])
    THEN LET e == IdentEnd(trimmed, 1)
             q == SkipSpaces(trimmed, e)
         IN  IF /\ q <= Len(trimmed)
                /\ trimmed[q] = "<"
                /\ Len(trimmed) >= q + 2
                /\ trimmed[Len(trimmed)] = ">"
             THEN <<SubSeq(trimmed, 1, e - 1), SubSeq(trimmed, q + 1, Len(trimmed) - 1)>>
             ELSE <<>>
    ELSE <<>>

\* TypeParser.parseTypeString
RECURSIVE ParseTypeString(_)
ParseTypeString(typeStr) ==
    Only({IF m # <<>>
          THEN Only({Make(kind,
                          Some([i \in 1..Len(genericParams) |->
                                   ParseTypeString(genericParams[i])]),
                          IF kind = "Custom" THEN Some(m[1]) ELSE None, None) :
                        genericParams \in {ParseCommaSeparated(m[2])},
                        kind \in {TypeNameToKind(m[1])}})
          ELSE Only({Make(kind, None,
                          IF kind = "Custom" THEN Some(Trim(typeStr)) ELSE None,
                          None) :
                        kind \in {TypeNameToKind(Trim(typeStr))}}) :
             m \in {GenericMatch(Trim(typeStr))}})

\* TypeParser.extractGenericContent: the scan from position i on; None when
\* the bracket opened at startIdx is never closed
RECURSIVE GenericContentFrom(_, _, _, _)
GenericContentFrom(expr, startIdx, i, depth) ==
    IF i > Len(expr) THEN None
    ELSE IF expr[i] = "<" THEN GenericContentFrom(expr, startIdx, i + 1, depth + 1)
    ELSE IF expr[i] = ">"
         THEN IF depth - 1 = 0
              THEN Some(SubSeq(expr, startIdx + 1, i - 1))
              ELSE GenericContentFrom(expr, startIdx, i + 1, depth - 1)
    ELSE GenericContentFrom(expr, startIdx, i + 1, depth)

\* TypeParser.extractGenericContent: None for null, Some(content) otherwise
ExtractGenericContent(expr) ==
    LET P == {i \in 1..Len(expr) : expr[i] = "<"}
    IN  IF P = {} THEN None ELSE GenericContentFrom(expr, Min(P), Min(P), 0)

-----------------------------------------------------------------------------
(* ExpressionInference (src/unnamed/part_011; the same code is              *)
(* InferenceEngine.inferExpressionType / inferOperandType of inference.ts)  *)

\* /^".*"$/
IsStringLiteral(e) == Len(e) >= 2 /\ e[1] = "\"" /\ e[Len(e)] = "\""

\* /^(true|false)$/
IsBoolLiteral(e) == e = <<"t","r","u","e">> \/ e = <<"f","a","l","s","e">>

\* /^[+-]?\d+$/
IsNumericLiteralIntegerOnly(e) ==
    LET s == IF Len(e) >= 1 /\ e[1] \in {"+", "-"} THEN Tail(e) ELSE e
    IN  Len(s) >= 1 /\ \A j \in 1..Len(s) : s[j] \in Digit

\* /^[+-]?\d+(\.\d+)?$/
IsNumericLiteral(e) ==
    LET s == IF Len(e) >= 1 /\ e[1] \in {"+", "-"} THEN Tail(e) ELSE e
        d == Min({j \in 1..(Len(s) + 1) : j = Len(s) + 1 \/ s[j] \notin Digit})
    IN  /\ d > 1
        /\ \/ d = Len(s) + 1
           \/ /\ s[d] = "."
              /\ d + 1 <= Len(s)
              /\ \A j \in (d + 1)..Len(s) : s[j] \in Digit

\* \s*\.new\s*\( matches at position q
NewCallAt(s, q) ==
    LET a == SkipSpaces(s, q)
    IN  /\ StartsWithAt(s, a, <<".","n","e","w">>)
        /\ LET b == SkipSpaces(s, a + 4)
           IN  b <= Len(s) /\ s[b] = "("

\* \s*(<.+>)?\s*\.new\s*\( matches at position p (the end of a type name)
ConstructorTailAt(s, p) ==
    LET q == SkipSpaces(s, p)
    IN  \/ /\ q <= Len(s)
           /\ s[q] = "<"
           /\ \E g \in (q + 2)..Len(s) : s[g] = ">" /\ NewCallAt(s, g + 1)
        \/ NewCallAt(s, p)

\* expr.match(/^\s*(List|MutableMap|MutableSet)\s*(<.+>)?\s*\.new\s*\(/):
\* <<>> or <<typeName>>
CollectionMatch(expr) ==
    LET s0 == SkipSpaces(expr, 1)
        hit == SelectSeq(<<SList, SMutableMap, SMutableSet>>,
                  LAMBDA n : /\ StartsWithAt(expr, s0, n)
                             /\ ConstructorTailAt(expr, s0 + Len(n)))
    IN  IF hit = <<>> THEN <<>> ELSE <<hit[1]>>

\* expr.match(/^\s*([A-Z][a-zA-Z0-9_]*)\s*(<.+>)?\s*\.new\s*\(/): <<>> or <<typeName>>
CustomTypeMatch(expr) ==
    LET s0 == SkipSpaces(expr, 1)
    IN  IF /\ s0 <= Len(expr)
           /\ expr[s0] \in Upper
           /\ ConstructorTailAt(expr, IdentEnd(expr, s0))
        THEN <<SubSeq(expr, s0, IdentEnd(expr, s0) - 1)>>
        ELSE <<>>

\* expr.match(/^([a-zA-Z_][a-zA-Z0-9_]*)\s*\(/): <<>> or <<funcName>>
FuncCallMatch(expr) ==
    IF /\ Len(expr) >= 1
       /\ IsIdStart(expr[1])
       /\ LET b == SkipSpaces(expr, IdentEnd(expr, 1))
          IN  b <= Len(expr) /\ expr[b] = "("
    THEN <<SubSeq(expr, 1, IdentEnd(expr, 1) - 1)>>
    ELSE <<>>

\* /^[a-zA-Z_][a-zA-Z0-9_]*$/
IsIdentifierOnly(expr) ==
    /\ Len(expr) >= 1
    /\ IsIdStart(expr[1])
    /\ IdentEnd(expr, 1) = Len(expr) + 1

\* /^[a-zA-Z_][a-zA-Z0-9_]*(\(.*\))?$/
IsIdentifierOrCall(expr) ==
    /\ Len(expr) >= 1
    /\ IsIdStart(expr[1])
    /\ LET j == IdentEnd(expr, 1)
       IN  \/ j = Len(expr) + 1
           \/ /\ expr[j] = "("
              /\ Len(expr) > j
              /\ expr[Len(expr)] = ")"

\* the generics of a constructor call, content what extractGenericContent
\* gave: the parsed parameters when the angle brackets hold content
ParsedGenerics(content) ==
    IF content = None \/ content[1] = <<>> THEN <<>>
    ELSE Only({[i \in 1..Len(genericParams) |-> ParseTypeString(genericParams[i])] :
                  genericParams \in {ParseCommaSeparated(content[1])}})

\* ExpressionInference.inferExpressionType, reading the return-type table
\* frt and the type map tmap
InferExpressionType(expr, frt, tmap) ==
    IF IsStringLiteral(expr) THEN MakeKind("String")
    ELSE IF IsBoolLiteral(expr) THEN MakeKind("Bool")
    ELSE IF IsNumericLiteral(expr) THEN MakeKind("Int")
    ELSE Only({
      IF collectionMatch # <<>>
      THEN Only({IF genericContent # None /\ genericContent[1] # <<>>
                 THEN MakeGeneric(kind, generics)
                 ELSE IF kind \in {"List", "MutableSet"}
                 THEN MakeGeneric(kind, <<MakeKind("Unknown")>>)
                 ELSE IF kind = "MutableMap"
                 THEN MakeGeneric(kind, <<MakeKind("Unknown"), MakeKind("Unknown")>>)
                 ELSE MakeKind("Unknown") :
                    kind \in {TypeNameToKind(collectionMatch[1])}})
      ELSE IF customTypeMatch # <<>>
      THEN IF genericContent # None /\ genericContent[1] # <<>>
           THEN Make("Custom", Some(generics), Some(customTypeMatch[1]), None)
           ELSE Make("Custom", None, Some(customTypeMatch[1]), None)
      ELSE IF funcCallMatch # <<>> /\ MapHas(frt, funcCallMatch[1])
      THEN frt[funcCallMatch[1]]
      ELSE IF IsIdentifierOrCall(expr)
      THEN IF MapHas(tmap, expr) THEN tmap[expr] ELSE MakeKind("Unit")
      ELSE MakeKind("Unknown") :
         collectionMatch \in {CollectionMatch(expr)},
         customTypeMatch \in {CustomTypeMatch(expr)},
         funcCallMatch \in {FuncCallMatch(expr)},
         genericContent \in {ExtractGenericContent(expr)},
         generics \in {ParsedGenerics(ExtractGenericContent(expr))}})

\* ExpressionInference.inferOperandType
InferOperandType(operand, tmap) ==
    IF IsNumericLiteral(operand) THEN MakeKind("Int")
    ELSE IF IsStringLiteral(operand) THEN MakeKind("String")
    ELSE IF IsBoolLiteral(operand) THEN MakeKind("Bool")
    ELSE IF MapHas(tmap, operand) THEN tmap[operand]
    ELSE MakeKind("Unknown")

-----------------------------------------------------------------------------
(* DeclarationInference and ASTProcessor                                    *)
(* (src/src/inference/engine/declarationInference.ts; the same code is in   *)
(* the InferenceEngine of src/src/inference.ts)                             *)

\* \b(?:var|val)\s+[a-zA-Z_] matches at position p
VarKeywordAt(line, p) ==
    /\ WordBoundaryBefore(line, p)
    /\ KwIdentAt(line, p, KwVar) \/ KwIdentAt(line, p, KwVal)

\* declRegex from position p: <<>> or <<name, annotation>>, the annotation trimmed
DeclMatchAt(line, p) ==
    LET n == SkipSpaces(line, p + 3)
        e == IdentEnd(line, n)
        q == SkipSpaces(line, e)
    IN  IF /\ VarKeywordAt(line, p)
           /\ q < Len(line)
           /\ line[q] = ":"
           /\ \A j \in (q + 1)..Len(line) : line[j] # "="
        THEN <<SubSeq(line, n, e - 1), Trim(SubSeq(line, q + 1, Len(line)))>>
        ELSE <<>>

\* line.match(/\b(?:var|val)\s+([a-zA-Z_][a-zA-Z0-9_]*)\s*:\s*([^=]+)$/)
DeclMatch(line) ==
    Only({IF P = {} THEN <<>> ELSE DeclMatchAt(line, Min(P)) :
             P \in {{p \in 1..Len(line) : DeclMatchAt(line, p) # <<>>}}})

\* \s*=\s*(.+)$ after position t: the position of the = sign, 0 when no match
EqualsAfter(line, t) ==
    LET eq == SkipSpaces(line, t + 1)
    IN  IF eq < Len(line) /\ line[eq] = "=" THEN eq ELSE 0

\* initRegex from position p: <<>> or <<name, annotation, rhs>>, the annotation
\* None when its group did not take part, the rhs trimmed
InitMatchAt(line, p) ==
    LET n == SkipSpaces(line, p + 3)
        e == IdentEnd(line, n)
        q == SkipSpaces(line, e)
        name == SubSeq(line, n, e - 1)
        ends(s) == {t \in s..Len(line) : EqualsAfter(line, t) # 0}
        starts == {s \in (q + 1)..SkipSpaces(line, q + 1) : ends(s) # {}}
    IN  IF ~VarKeywordAt(line, p) \/ q > Len(line) THEN <<>>
        ELSE IF line[q] = ":" /\ starts # {}
        THEN LET s == Max(starts)
                 t == Min(ends(s))
             IN  <<name, Some(SubSeq(line, s, t)),
                   Trim(SubSeq(line, EqualsAfter(line, t) + 1, Len(line)))>>
        ELSE IF line[q] = "=" /\ q < Len(line)
        THEN <<name, None, Trim(SubSeq(line, q + 1, Len(line)))>>
        ELSE <<>>

\* line.match(/\b(?:var|val)\s+([a-zA-Z_][a-zA-Z0-9_]*)\s*(?::\s*(.+?))?\s*=\s*(.+)$/)
InitMatch(line) ==
    Only({IF P = {} THEN <<>> ELSE InitMatchAt(line, Min(P)) :
             P \in {{p \in 1..Len(line) : InitMatchAt(line, p) # <<>>}}})

\* storing the parsed annotation without the flag
AnnotatedUnflagged(t) == t

\* the annotated type that both scans store
Annotated(t) == [t EXCEPT !.hasTypeAnnotation = Some(TRUE)]

\* the body of the loop of DeclarationInference.scanDeclarationsWithoutInit
ScanDeclarationLine(raw, tmap) ==
    Only({IF m = <<>> THEN tmap
          ELSE MapSet(tmap, m[1], Annotated(ParseTypeString(m[2]))) :
             m \in {DeclMatch(Trim(raw))}})

\* DeclarationInference.scanDeclarationsWithoutInit
ScanDeclarationsWithoutInit(lines, tmap) ==
    LET f[k \in 0..Len(lines)] ==
            IF k = 0 THEN tmap ELSE ScanDeclarationLine(lines[k], f[k - 1])
    IN  f[Len(lines)]

\* the body of the loop of DeclarationInference.scanInitializers
ScanInitializerLine(raw, frt, tmap) ==
    Only({IF m = <<>> THEN tmap
          ELSE IF m[2] # None
          THEN MapSet(tmap, m[1], Annotated(ParseTypeString(m[2][1])))
          ELSE MapSet(tmap, m[1], InferExpressionType(m[3], frt, tmap)) :
             m \in {InitMatch(Trim(raw))}})

\* DeclarationInference.scanInitializers
ScanInitializers(lines, frt, tmap) ==
    LET f[k \in 0..Len(lines)] ==
            IF k = 0 THEN tmap ELSE ScanInitializerLine(lines[k], frt, f[k - 1])
    IN  f[Len(lines)]

\* DeclarationInference.scanAssignments: the body is empty
ScanAssignments(lines, tmap) == tmap

\* the order in which the stack loops of ASTProcessor pop the nodes below
\* and including node id: a node, then its children from the last to the first
RECURSIVE VisitOrder(_, _)
RECURSIVE VisitChildren(_, _)
VisitChildren(tree, kids) ==
    IF kids = <<>> THEN <<>>
    ELSE VisitOrder(tree, kids[Len(kids)])
            \o VisitChildren(tree, SubSeq(kids, 1, Len(kids) - 1))

VisitOrder(tree, id) == <<id>> \o VisitChildren(tree, Children(tree, id))

\* ASTProcessor.collectDeclarationsFromAST
CollectDeclarationsFromAST(tree, tmap) ==
    LET order == VisitOrder(tree, 1)
        f[k \in 0..Len(order)] ==
            IF k = 0 THEN tmap
            ELSE LET node == tree[order[k]]
                 IN  IF node.kind = "variable" /\ ~MapHas(f[k - 1], node.name)
                     THEN MapSet(f[k - 1], node.name, MakeKind("Unknown"))
                     ELSE f[k - 1]
    IN  f[Len(order)]

\* the return-type regex from position p: <<>> or <<type>>, the type trimmed
FunReturnMatchAt(line, p) ==
    LET n == SkipSpaces(line, p + 3)
        e == IdentEnd(line, n)
        b == SkipSpaces(line, e)
        closing == {c \in (b + 1)..Len(line) : line[c] = ")"}
        d == SkipSpaces(line, Min(closing) + 1)
        tailOk(t) == LET u == SkipSpaces(line, t + 1)
                     IN  u = Len(line) + 1 \/ (u = Len(line) /\ line[u] = "{")
        s == Min({SkipSpaces(line, d + 1), Len(line)})
    IN  IF /\ KwIdentAt(line, p, KwFun)
           /\ b <= Len(line)
           /\ line[b] = "("
           /\ closing # {}
           /\ d < Len(line)
           /\ line[d] = ":"
        THEN <<Trim(SubSeq(line, s, Min({t \in s..Len(line) : tailOk(t)})))>>
        ELSE <<>>

\* line.match(/fun\s+[a-zA-Z_][a-zA-Z0-9_]*\s*\([^)]*\)\s*:\s*(.+?)\s*\{?$/)
FunReturnMatch(line) ==
    Only({IF P = {} THEN <<>> ELSE FunReturnMatchAt(line, Min(P)) :
             P \in {{p \in 1..Len(line) : FunReturnMatchAt(line, p) # <<>>}}})

\* ASTProcessor.parseFunctionReturnType: None for null
ParseFunctionReturnType(node, lines) ==
    IF node.line < 0 \/ node.line >= Len(lines) THEN None
    ELSE Only({IF m = <<>> THEN None ELSE Some(ParseTypeString(m[1])) :
                  m \in {FunReturnMatch(Trim(lines[node.line + 1]))}})

\* ASTProcessor.collectFunctionReturnTypes
CollectFunctionReturnTypes(tree, lines, frt) ==
    LET order == VisitOrder(tree, 1)
        f[k \in 0..Len(order)] ==
            IF k = 0 THEN frt
            ELSE Only({IF node.kind = "function" /\ returnType # None
                       THEN MapSet(f[k - 1], node.name, returnType[1])
                       ELSE f[k - 1] :
                          node \in {tree[order[k]]},
                          returnType \in
                              {ParseFunctionReturnType(tree[order[k]], lines)}})
    IN  f[Len(order)]

-----------------------------------------------------------------------------
(* CollectionInference (src/unnamed/part_010; the same code is in the       *)
(* InferenceEngine of src/src/inference.ts)                                 *)

\* CollectionInference.checkContainsUnknown
RECURSIVE CheckContainsUnknown(_)
CheckContainsUnknown(t) ==
    \/ t.kind = "Unknown"
    \/ /\ t.generics # None
       /\ \E i \in 1..Len(t.generics[1]) : CheckContainsUnknown(t.generics[1][i])

\* the last return of mergeTypes: both kinds are known and differ
MismatchResultRight(a, b) == b

MismatchResult(a, b) == a

\* CollectionInference.mergeTypes
RECURSIVE MergeTypes(_, _)
MergeTypes(a, b) ==
    IF a.kind = b.kind
    THEN IF /\ a.generics # None
            /\ b.generics # None
            /\ Len(a.generics[1]) = Len(b.generics[1])
         THEN MakeGeneric(a.kind,
                  [i \in 1..Len(a.generics[1]) |->
                      MergeTypes(a.generics[1][i], b.generics[1][i])])
         ELSE a
    ELSE IF a.kind = "Unknown" THEN b
    ELSE IF b.kind = "Unknown" THEN a
    ELSE MismatchResult(a, b)

\* the regex of parseMethodCall from position i: 0, or the position of the "("
MethodCallAt(line, i) ==
    LET e == IdentEnd(line, i)
        f == IdentEnd(line, e + 1)
        b == SkipSpaces(line, f)
    IN  IF /\ IsIdStart(line[i])
           /\ e < Len(line)
           /\ line[e] = "."
           /\ IsIdStart(line[e + 1])
           /\ b <= Len(line)
           /\ line[b] = "("
        THEN b
        ELSE 0

\* the loop of parseMethodCall that looks for the closing parenthesis: the
\* end (exclusive, 0-based as in the source) of the argument text
RECURSIVE ArgsEndFrom(_, _, _, _)
ArgsEndFrom(line, i, depth, endIndex) ==
    IF ~(i < Len(line) /\ depth > 0) THEN endIndex
    ELSE LET ch == line[i + 1]
             d == IF ch = "(" THEN depth + 1
                  ELSE IF ch = ")" THEN depth - 1
                  ELSE depth
         IN  ArgsEndFrom(line, i + 1, d, IF d > 0 THEN i + 1 ELSE endIndex)

\* CollectionInference.parseMethodCall: None for null, else Some(call)
ParseMethodCall(line) ==
    Only({IF P = {} THEN None
          ELSE Only({Some([args |-> ParseCommaSeparated(
                                       SubSeq(line, startIndex + 1,
                                           ArgsEndFrom(line, startIndex, 1,
                                                       startIndex))),
                           object |-> SubSeq(line, i, e - 1),
                           method |-> SubSeq(line, e + 1, IdentEnd(line, e + 1) - 1)]) :
                        i \in {Min(P)},
                        e \in {IdentEnd(line, Min(P))},
                        startIndex \in {MethodCallAt(line, Min(P))}}) :
             P \in {{i \in 1..Len(line) : MethodCallAt(line, i) # 0}}})

\* existing.generics?.[k] ?? make("Unknown")
GenericSlot(existing, k) ==
    IF existing.generics # None /\ Len(existing.generics[1]) >= k
    THEN existing.generics[1][k]
    ELSE MakeKind("Unknown")

\* the element type mergeCollectionElementType stores
MergedElementLatest(cur, elemType) == elemType

MergedElement(cur, elemType) == MergeTypes(cur, elemType)

\* mergeCollectionElementType guessing List for a name without a collection
\* entry
MergeCollectionElementTypeGuessingList(tmap, collectionName, elemType) ==
    IF MapHas(tmap, collectionName) /\ tmap[collectionName].kind = "MutableSet"
    THEN MapSet(tmap, collectionName,
             MakeGeneric("MutableSet",
                 <<MergedElement(GenericSlot(tmap[collectionName], 1), elemType)>>))
    ELSE IF MapHas(tmap, collectionName) /\ tmap[collectionName].kind = "List"
    THEN MapSet(tmap, collectionName,
             MakeGeneric("List",
                 <<MergedElement(GenericSlot(tmap[collectionName], 1), elemType)>>))
    ELSE IF ~MapHas(tmap, collectionName) \/ CheckContainsUnknown(tmap[collectionName])
    THEN MapSet(tmap, collectionName, MakeGeneric("List", <<elemType>>))
    ELSE tmap

\* CollectionInference.mergeCollectionElementType
MergeCollectionElementType(tmap, collectionName, elemType) ==
    IF MapHas(tmap, collectionName) /\ tmap[collectionName].kind = "MutableSet"
    THEN MapSet(tmap, collectionName,
             MakeGeneric("MutableSet",
                 <<MergedElement(GenericSlot(tmap[collectionName], 1), elemType)>>))
    ELSE IF MapHas(tmap, collectionName) /\ tmap[collectionName].kind = "List"
    THEN MapSet(tmap, collectionName,
             MakeGeneric("List",
                 <<MergedElement(GenericSlot(tmap[collectionName], 1), elemType)>>))
    ELSE tmap

\* CollectionInference.mergeMapTypes
MergeMapTypes(tmap, mapName, keyType, valType) ==
    IF ~MapHas(tmap, mapName) \/ CheckContainsUnknown(tmap[mapName])
    THEN MapSet(tmap, mapName, MakeGeneric("MutableMap", <<keyType, valType>>))
    ELSE IF tmap[mapName].kind = "MutableMap"
    THEN MapSet(tmap, mapName,
             MakeGeneric("MutableMap",
                 <<MergeTypes(GenericSlot(tmap[mapName], 1), keyType),
                   MergeTypes(GenericSlot(tmap[mapName], 2), valType)>>))
    ELSE tmap

\* the body of the loop of CollectionInference.scanCollectionUsages
ScanCollectionLine(raw, frt, tmap) ==
    Only({IF call = None THEN tmap
          ELSE IF call[1].method = <<"a","d","d">> /\ Len(call[1].args) = 1
          THEN MergeCollectionElementType(tmap, call[1].object,
                   InferExpressionType(call[1].args[1], frt, tmap))
          ELSE IF call[1].method = <<"p","u","t">> /\ Len(call[1].args) = 2
          THEN MergeMapTypes(tmap, call[1].object,
                   InferExpressionType(call[1].args[1], frt, tmap),
                   InferExpressionType(call[1].args[2], frt, tmap))
          ELSE tmap :
             call \in {ParseMethodCall(Trim(raw))}})

\* CollectionInference.scanCollectionUsages
ScanCollectionUsages(lines, frt, tmap) ==
    LET f[k \in 0..Len(lines)] ==
            IF k = 0 THEN tmap ELSE ScanCollectionLine(lines[k], frt, f[k - 1])
    IN  f[Len(lines)]

-----------------------------------------------------------------------------
(* BinaryOpInference (src/unnamed/part_009; the same code is in the         *)
(* InferenceEngine of src/src/inference.ts)                                 *)

IsOperator(ch) == ch \in {"+", "-", "*", "/"}

\* the regex of scanBinaryOps from position p: <<>> or <<varName, expr>>, the
\* expression trimmed
AssignMatchAt(line, p) ==
    LET n == SkipSpaces(line, p + 3)
        e == IdentEnd(line, n)
        q == SkipSpaces(line, e)
    IN  IF VarKeywordAt(line, p) /\ q < Len(line) /\ line[q] = "="
        THEN <<SubSeq(line, n, e - 1), Trim(SubSeq(line, q + 1, Len(line)))>>
        ELSE <<>>

\* line.match(/\b(?:var|val)\s+([a-zA-Z_][a-zA-Z0-9_]*)\s*=\s*(.+)/)
AssignMatch(line) ==
    Only({IF P = {} THEN <<>> ELSE AssignMatchAt(line, Min(P)) :
             P \in {{p \in 1..Len(line) : AssignMatchAt(line, p) # <<>>}}})

\* isUnaryAtStart of tokenizeExpression
IsUnaryAtStart(ch, tokens, current) ==
    ch \in {"+", "-"} /\ tokens = <<>> /\ Trim(current) = <<>>

\* a test that never takes a sign after an operator
IsUnaryAfterOperatorNever(ch, tokens, current) == FALSE

\* isUnaryAfterOperator of tokenizeExpression
IsUnaryAfterOperator(ch, tokens, current) ==
    /\ ch \in {"+", "-"}
    /\ tokens # <<>>
    /\ tokens[Len(tokens)] \in {<<"+">>, <<"-">>, <<"*">>, <<"/">>}
    /\ Trim(current) = <<>>

\* BinaryOpInference.tokenizeExpression: the loop from character i on
RECURSIVE TokenizeFrom(_, _, _, _)
TokenizeFrom(expr, i, current, tokens) ==
    IF i > Len(expr)
    THEN IF Trim(current) # <<>> THEN Append(tokens, Trim(current)) ELSE tokens
    ELSE LET ch == expr[i]
             flushed == IF Trim(current) # <<>>
                        THEN Append(tokens, Trim(current))
                        ELSE tokens
         IN  IF IsOperator(ch)
             THEN IF \/ IsUnaryAtStart(ch, tokens, current)
                     \/ IsUnaryAfterOperator(ch, tokens, current)
                  THEN TokenizeFrom(expr, i + 1, Append(current, ch), tokens)
                  ELSE TokenizeFrom(expr, i + 1, <<>>, Append(flushed, <<ch>>))
             ELSE TokenizeFrom(expr, i + 1, Append(current, ch), tokens)

TokenizeExpression(expr) == TokenizeFrom(expr, 1, <<>>, <<>>)

\* BinaryOpInference.inferBinaryOperationType
InferBinaryOperationType(leftType, operator, rightType) ==
    IF leftType.kind # rightType.kind THEN MakeKind("Unknown")
    ELSE IF leftType.kind = "Int" THEN MakeKind("Int")
    ELSE IF leftType.kind = "String"
    THEN IF operator = <<"+">> THEN MakeKind("String") ELSE MakeKind("Unknown")
    ELSE MakeKind("Unknown")

\* the loop of inferBinaryExpressionType from token i (0-based) on
RECURSIVE FoldTokens(_, _, _, _)
FoldTokens(tokens, i, resultType, tmap) ==
    IF ~(i < Len(tokens)) \/ i + 1 >= Len(tokens) THEN resultType
    ELSE LET next == InferBinaryOperationType(resultType, tokens[i + 1],
                         InferOperandType(tokens[i + 2], tmap))
         IN  IF next.kind = "Unknown" THEN next
             ELSE FoldTokens(tokens, i + 2, next, tmap)

\* BinaryOpInference.inferBinaryExpressionType: None for null
InferBinaryExpressionType(expr, tmap) ==
    Only({IF Len(tokens) = 0 THEN None
          ELSE IF Len(tokens) = 1 THEN Some(InferOperandType(tokens[1], tmap))
          ELSE Some(FoldTokens(tokens, 1, InferOperandType(tokens[1], tmap), tmap)) :
             tokens \in {TokenizeExpression(expr)}})

\* the loop body storing the result whatever the entry holds
ScanBinaryOpLineAlwaysStoring(raw, tmap) ==
    Only({IF m = <<>> THEN tmap
          ELSE IF ~(\E k \in 1..Len(m[2]) : IsOperator(m[2][k])) THEN tmap
          ELSE Only({IF resultType = None THEN tmap
                     ELSE MapSet(tmap, m[1], resultType[1]) :
                        resultType \in {InferBinaryExpressionType(m[2], tmap)}}) :
             m \in {AssignMatch(Trim(raw))}})

\* the body of the loop of BinaryOpInference.scanBinaryOps
ScanBinaryOpLine(raw, tmap) ==
    Only({IF m = <<>> THEN tmap
          ELSE IF ~(\E k \in 1..Len(m[2]) : IsOperator(m[2][k])) THEN tmap
          ELSE Only({IF resultType = None THEN tmap
                     ELSE IF \/ ~MapHas(tmap, m[1])
                             \/ CheckContainsUnknown(tmap[m[1]])
                     THEN MapSet(tmap, m[1], resultType[1])
                     ELSE tmap :
                        resultType \in {InferBinaryExpressionType(m[2], tmap)}}) :
             m \in {AssignMatch(Trim(raw))}})

\* BinaryOpInference.scanBinaryOps
ScanBinaryOps(lines, tmap) ==
    LET f[k \in 0..Len(lines)] ==
            IF k = 0 THEN tmap ELSE ScanBinaryOpLine(lines[k], f[k - 1])
    IN  f[Len(lines)]

-----------------------------------------------------------------------------
(* The parser and the scope resolver as a state machine: a Parser is       *)
(* constructed on a document, parse builds the tree, and the resolver is   *)
(* asked for the symbols visible at a line of the document.                *)

\* the longest document, in lines
MaxLines == 4

\* the lines documents are made of
ParserLines ==
    { <<"a","c","t","o","r"," ","A"," ","{">>,
      <<"f","u","n"," ","f","(",")"," ","{">>,
      <<"v","a","r"," ","x">>,
      <<"}">>,
      <<"}"," ","e","l","s","e"," ","{">>,
      <<"c","l","a","s","s"," ","C">>,
      <<"s"," ","="," ","\"","i","f","\"">> }

ParserDocs == UNION {[1..n -> ParserLines] : n \in 1..MaxLines}

\* the state of the two engines after construction
EnginesIdle ==
    /\ types = EmptyMap
    /\ functionReturnTypes = EmptyMap
    /\ engineTypes = EmptyMap
    /\ engineFunctionReturnTypes = EmptyMap
    /\ sharedTypes = EmptyMap
    /\ sharedFunctionReturnTypes = EmptyMap
    /\ result = EmptyMap
    /\ lastRun = <<>>
    /\ runs = 0
    /\ scanned = 0

MergeIdle == mergeArgs = <<>> /\ merged = <<>>

RegistryIdle ==
    /\ userTypes = EmptyMap
    /\ instanceType = <<>>
    /\ methods = <<>>
    /\ collectedFrom = <<>>
    /\ lookupName = <<>>
    /\ definition = <<>>

ScopeIdle ==
    /\ queryLine = -1
    /\ symbols = <<>>
    /\ soughtName = <<>>
    /\ foundNode = <<>>

\* the references of the Map objects the field initialisers create: the map
\* of the engine of inference.ts, and the map of the engine of part_012 that
\* its constructor hands to the components
InitialTypesRef == 1
SharedTypesRef == 2

\* every document closed, nothing cached, the two engines just constructed
ServiceIdle ==
    /\ documents = [u \in {"u1", "u2"} |-> None]
    /\ cache = EmptyMap
    /\ maps = <<EmptyMap, EmptyMap>>
    /\ typesRef = InitialTypesRef
    /\ engineTypesRef = SharedTypesRef
    /\ returnedRefs = {}
    /\ returned = <<>>

InitParser ==
    /\ input = <<>>
    /\ text \in ParserDocs
    /\ ast = <<>>
    /\ ScopeIdle
    /\ EnginesIdle
    /\ MergeIdle
    /\ RegistryIdle
    /\ ServiceIdle

\* Parser.parse
Parse ==
    /\ ast = <<>>
    /\ ast' = ParseLines(text)
    /\ UNCHANGED <<input, text, scopeVars, monoVars, modularVars, runVars,
                   mergeVars, registryVars,
                   heapVars, serviceVars>>

\* ScopeResolver.getSymbolsAtLine(ast, line) for a line of the document
SymbolsAtLine(line) ==
    /\ ast # <<>>
    /\ queryLine' = line
    /\ symbols' = GetSymbolsAtLine(ast, line)
    /\ UNCHANGED <<input, parserVars, soughtName, foundNode, monoVars, modularVars, runVars,
                   mergeVars, registryVars,
                   heapVars, serviceVars>>

NextParser ==
    \/ Parse
    \/ \E line \in 0..(Len(text) - 1) : SymbolsAtLine(line)

SpecParser == InitParser /\ [][NextParser]_vars

-----------------------------------------------------------------------------
(* Properties of the parser and the scope resolver *)

\* every proper ancestor of node id has a span that holds the line
RECURSIVE AncestorsContain(_, _, _)
AncestorsContain(tree, id, line) ==
    \/ tree[id].parent = 0
    \/ /\ SpanContains(tree[tree[id].parent], line)
       /\ AncestorsContain(tree, tree[id].parent, line)

NodesOfKind(tree, kinds) == {k \in 1..Len(tree) : tree[k].kind \in kinds}

\* the symbol list holds an entry for node id
Listed(syms, id) == \E k \in 1..Len(syms) : syms[k].node = id

\* C1: in every tree Parser.parse returns, every node's [startLine, endLine]
\* span lies within its parent's span, and the program root spans line 0 to
\* the last line of the text.
SpansWithinParent ==
    ast # <<>> =>
        /\ ast[1].startLine = 0
        /\ ast[1].endLine = Len(text) - 1
        /\ \A k \in 2..Len(ast) :
              /\ ast[ast[k].parent].startLine <= ast[k].startLine
              /\ ast[k].endLine <= ast[ast[k].parent].endLine

\* C8: getSymbolsAtLine(tree, L) lists a variable node declared at line d
\* exactly when L lies in the span of its enclosing scope and of every scope
\* around that one, and L >= d.
VariableListedIffInScopeAndDeclared ==
    queryLine >= 0 =>
        \A v \in NodesOfKind(ast, {"variable"}) :
            Listed(symbols, v) <=>
                /\ AncestorsContain(ast, v, queryLine)
                /\ queryLine >= ast[v].line

\* C8 witness: in one answer a variable declared at or before the queried
\* line is listed and a variable of an enclosing scope that holds the line,
\* declared after it, is not.
VariableHiddenBeforeDeclaration ==
    /\ queryLine >= 0
    /\ \E v, w \in NodesOfKind(ast, {"variable"}) :
          /\ AncestorsContain(ast, v, queryLine)
          /\ AncestorsContain(ast, w, queryLine)
          /\ ast[v].line <= queryLine
          /\ ast[w].line > queryLine
          /\ Listed(symbols, v)
          /\ ~Listed(symbols, w)

\* C9: getSymbolsAtLine(tree, L) lists every function declared directly in a
\* scope whose span holds L, also when L is before the function's line, and
\* every top-level class and actor for every line L of the document.
FunctionsHoistedInScope ==
    queryLine >= 0 =>
        /\ \A f \in NodesOfKind(ast, {"function"}) :
              SpanContains(ast[ast[f].parent], queryLine) =>
                  \E k \in 1..Len(symbols) :
                      /\ symbols[k].name = ast[f].name
                      /\ symbols[k].line = ast[f].line
                      /\ symbols[k].kind = "Function"
        /\ \A c \in NodesOfKind(ast, {"class", "actor"}) :
              ast[c].parent = 1 => Listed(symbols, c)

-----------------------------------------------------------------------------
(* The two inference engines as a state machine: a document is opened and  *)
(* parsed, and inferFromText is called on its text and tree, any number of *)
(* times on the same engine instance.                                      *)

\* the passes of inferFromText before scanCollectionUsages, reading the
\* return-type table returns
DeclarationPasses(lines, tree, tmap, returns) ==
    ScanAssignments(lines,
     ScanInitializers(lines, returns,
      ScanDeclarationsWithoutInit(lines,
       CollectDeclarationsFromAST(tree, tmap))))

\* the passes of inferFromText in their order, started from the maps tmap
\* and frt
RunPasses(lines, tree, tmap, frt) ==
    Only({[types |->
              ScanBinaryOps(lines,
               ScanCollectionUsages(lines, returns,
                DeclarationPasses(lines, tree, tmap, returns))),
           functionReturnTypes |-> returns] :
             returns \in {CollectFunctionReturnTypes(tree, lines, frt)}})

\* the most inferFromText calls on one engine pair
MaxRuns == 2

RunRecord(engine, startTypes, startFunctionReturnTypes) ==
    [text |-> text, types |-> startTypes, functionReturnTypes |-> startFunctionReturnTypes,
     engine |-> engine]

\* InferenceEngine.inferFromText of src/src/inference.ts: the fields are
\* replaced by new maps and every pass works on the fields
InferFromText ==
    /\ runs < MaxRuns
    /\ \E r \in {RunPasses(text, ast, EmptyMap, EmptyMap)} :
           /\ types' = r.types
           /\ functionReturnTypes' = r.functionReturnTypes
           /\ result' = r.types
           /\ lastRun' = RunRecord("monolithic", EmptyMap, EmptyMap)
           /\ runs' = runs + 1
           /\ scanned' = Len(text)
           /\ UNCHANGED <<input, parserVars, scopeVars, modularVars, mergeVars,
                          registryVars,
                          heapVars, serviceVars>>

\* InferenceEngine.inferFromText of src/unnamed/part_012: the fields are
\* replaced by new maps, every pass works on the maps its component received
\* from the constructor, and the new map of the field is returned
EngineInferFromText ==
    /\ runs < MaxRuns
    /\ \E r \in {RunPasses(text, ast, sharedTypes, sharedFunctionReturnTypes)} :
           /\ engineTypes' = EmptyMap
           /\ engineFunctionReturnTypes' = EmptyMap
           /\ sharedTypes' = r.types
           /\ sharedFunctionReturnTypes' = r.functionReturnTypes
           /\ result' = engineTypes'
           /\ lastRun' = RunRecord("modular", sharedTypes, sharedFunctionReturnTypes)
           /\ runs' = runs + 1
           /\ scanned' = Len(text)
           /\ UNCHANGED <<input, parserVars, scopeVars, monoVars, mergeVars,
                          registryVars,
                          heapVars, serviceVars>>

\* new Parser(text).parse() on another document, between two runs
OpenDocument(doc) ==
    /\ 0 < runs
    /\ runs < MaxRuns
    /\ input' = <<>>
    /\ text' = doc
    /\ ast' = ParseLines(doc)
    /\ UNCHANGED <<scopeVars, monoVars, modularVars, runVars, mergeVars,
                   registryVars,
                   heapVars, serviceVars>>

SActorA == <<"a","c","t","o","r"," ","A"," ","{">>

\* the most lines in the actor of a document of EngineDocs
MaxEngineLines == 2

\* the lines of its actor
EngineLines ==
    { <<"v","a","r"," ","x">>,
      <<"v","a","l"," ","x"," ","="," ","5">>,
      <<"x"," ","="," ","5">>,
      <<"x"," ","="," ","\"","a","\"">>,
      <<"f","u","n"," ","f","(",")",":"," ","I","n","t"," ","{">>,
      <<"v","a","l"," ","y"," ","="," ","f","(",")">> }

EngineDocs ==
    {<<SActorA>> \o body :
        body \in UNION {[1..n -> EngineLines] : n \in 1..MaxEngineLines}}

InitEngine ==
    /\ input = <<>>
    /\ text \in EngineDocs
    /\ ast = ParseLines(text)
    /\ ScopeIdle
    /\ EnginesIdle
    /\ MergeIdle
    /\ RegistryIdle
    /\ ServiceIdle

NextEngine ==
    \/ InferFromText
    \/ EngineInferFromText
    \/ \E doc \in EngineDocs : OpenDocument(doc)

SpecEngine == InitEngine /\ [][NextEngine]_vars

\* the map the passes of the last run wrote
WorkingMap == IF lastRun.engine = "monolithic" THEN types ELSE sharedTypes

\* the last run is a run on the open document
RanOnText == lastRun # <<>> /\ lastRun.text = text

\* C2: the map inferFromText returns has an entry for the name of every
\* variable node of the tree it was given.
ResultCoversVariables ==
    RanOnText =>
        \A v \in NodesOfKind(ast, {"variable"}) : MapHas(result, ast[v].name)

\* C3: the passes of every run start from empty maps, so that nothing an
\* earlier run recorded is visible to them, and the maps they leave and the
\* map the run returns are those of a run on a freshly constructed engine.
RunsStartEmpty ==
    RanOnText =>
        /\ lastRun.types = EmptyMap
        /\ lastRun.functionReturnTypes = EmptyMap
        /\ WorkingMap = RunPasses(text, ast, EmptyMap, EmptyMap).types
        /\ result = IF lastRun.engine = "monolithic"
                    THEN RunPasses(text, ast, EmptyMap, EmptyMap).types
                    ELSE EmptyMap

SVarX == <<"v","a","r"," ","x">>

\* x is declared by var x lines only
OnlyBareVarX ==
    /\ \E i \in 1..Len(text) : text[i] = SVarX
    /\ \A i \in 1..Len(text) :
          VarMatch(text[i]) # <<>> /\ VarMatch(text[i])[2] = <<"x">>
              => text[i] = SVarX

\* C7: a variable declared var x, without annotation or initializer, has
\* type Unknown in the map inferFromText returns, whatever plain
\* reassignments x = expr the text holds.
BareVarStaysUnknown ==
    RanOnText /\ OnlyBareVarX =>
        /\ MapHas(result, <<"x">>)
        /\ result[<<"x">>].kind = "Unknown"

-----------------------------------------------------------------------------
(* Declarations initialised with a binary expression: the document is       *)
(* written from a sequence of operands and the operators between them.      *)

\* the most operators in an expression
MaxOperators == 2

IntOperands == {<<"1">>, <<"2">>, <<"3">>}

StringOperands == {<<"\"","a","\"">>, <<"\"","b","\"">>}

Operators == {<<"+">>, <<"-">>, <<"*">>, <<"/">>}

BinaryInputs ==
    UNION {[operands : [1..(n + 1) -> IntOperands \cup StringOperands],
            operators : [1..n -> Operators]] : n \in 1..MaxOperators}

\* operand operator operand ..., single spaces between
RECURSIVE ExprText(_, _, _)
ExprText(operands, operators, n) ==
    IF n = 1 THEN operands[1]
    ELSE ExprText(operands, operators, n - 1)
            \o <<" ">> \o operators[n - 1] \o <<" ">> \o operands[n]

\* actor A {
\* val r = <expression>
BinaryDoc(in) ==
    <<SActorA,
      <<"v","a","l"," ","r"," ","="," ">>
          \o ExprText(in.operands, in.operators, Len(in.operands))>>

InitBinaryOps ==
    /\ input \in BinaryInputs
    /\ text = BinaryDoc(input)
    /\ ast = ParseLines(text)
    /\ ScopeIdle
    /\ EnginesIdle
    /\ MergeIdle
    /\ RegistryIdle
    /\ ServiceIdle

NextBinaryOps ==
    \/ InferFromText
    \/ EngineInferFromText

SpecBinaryOps == InitBinaryOps /\ [][NextBinaryOps]_vars

IsBinaryInput == input # <<>> /\ "operators" \in DOMAIN input

\* the kind the folding rule gives an expression
FoldedKind(in) ==
    IF \A i \in 1..Len(in.operands) : in.operands[i] \in IntOperands
    THEN "Int"
    ELSE IF /\ \A i \in 1..Len(in.operands) : in.operands[i] \in StringOperands
            /\ \A i \in 1..Len(in.operators) : in.operators[i] = <<"+">>
    THEN "String"
    ELSE "Unknown"

\* C4: after a run on val r = e, e operands joined by + - * /, the entry of
\* r is Int when every operand is Int, String when every operand is String
\* and every operator is +, and Unknown otherwise.
BinaryDeclarationKind ==
    RanOnText /\ IsBinaryInput =>
        /\ MapHas(WorkingMap, <<"r">>)
        /\ WorkingMap[<<"r">>].kind = FoldedKind(input)

\* a run on a difference of two string literals
StringDifferenceInferred ==
    /\ RanOnText
    /\ IsBinaryInput
    /\ Len(input.operators) = 1
    /\ input.operators[1] = <<"-">>
    /\ \A i \in 1..2 : input.operands[i] \in StringOperands

-----------------------------------------------------------------------------
(* Collections filled by add: the document declares l with List.new() or    *)
(* MutableSet.new() and adds a sequence of arguments to it.                 *)

\* the most add lines
MaxAdds == 3

\* the arguments of add, and the kind inferExpressionType gives each: two
\* numeric literals, a string literal, a binary expression (which the
\* expression rules do not cover) and an identifier that is not declared
AddArgs ==
    { <<"1">>, <<"2">>, <<"\"","a","\"">>, <<"1"," ","+"," ","2">>, <<"x">> }

ArgKind(arg) ==
    IF arg \in {<<"1">>, <<"2">>} THEN "Int"
    ELSE IF arg = <<"\"","a","\"">> THEN "String"
    ELSE IF arg = <<"x">> THEN "Unit"
    ELSE "Unknown"

CollectionInputs ==
    UNION {[args : [1..n -> AddArgs], collection : {SList, SMutableSet}] :
              n \in 0..MaxAdds}

\* actor A {
\* val l = <collection>.new()
\* l.add(<arg>)   for each argument
CollectionDoc(in) ==
    <<SActorA,
      <<"v","a","l"," ","l"," ","="," ">> \o in.collection
          \o <<".","n","e","w","(",")">>>>
    \o [i \in 1..Len(in.args) |->
           <<"l",".","a","d","d","(">> \o in.args[i] \o <<")">>]

InitCollections ==
    /\ input \in CollectionInputs
    /\ text = CollectionDoc(input)
    /\ ast = ParseLines(text)
    /\ ScopeIdle
    /\ EnginesIdle
    /\ MergeIdle
    /\ RegistryIdle
    /\ ServiceIdle

NextCollections ==
    \/ InferFromText
    \/ EngineInferFromText

SpecCollections == InitCollections /\ [][NextCollections]_vars

IsCollectionInput == input # <<>> /\ "collection" \in DOMAIN input

\* the kind of the first argument whose kind is not Unknown
FirstKnownKind(args) ==
    LET known == {i \in 1..Len(args) : ArgKind(args[i]) # "Unknown"}
    IN  IF known = {} THEN "Unknown" ELSE ArgKind(args[Min(known)])

\* mergeTypes folded from the left over the types of the first n arguments
RECURSIVE MergeFold(_, _)
MergeFold(args, n) ==
    IF n = 0 THEN MakeKind("Unknown")
    ELSE MergeTypes(MergeFold(args, n - 1), MakeKind(ArgKind(args[n])))

-----------------------------------------------------------------------------
(* mergeTypes on its own: two type descriptors are handed to it.            *)

\* the deepest nesting of List in the descriptors
MaxTypeDepth == 2

SFoo == <<"F","o","o">>

\* descriptors without generics: what make(kind) gives, and a custom type
BaseTypes ==
    { MakeKind("Unknown"), MakeKind("Int"), MakeKind("String"),
      Make("Custom", None, Some(SFoo), None) }

\* descriptors with List nested at most d deep
RECURSIVE TypesOfDepth(_)
TypesOfDepth(d) ==
    IF d = 0 THEN BaseTypes
    ELSE BaseTypes
         \cup {MakeKind("List")}
         \cup {MakeGeneric("List", <<g>>) : g \in TypesOfDepth(d - 1)}
         \cup {MakeGeneric("MutableMap", <<k, v>>) : k, v \in BaseTypes}

InitMerge ==
    /\ input = <<>>
    /\ text = <<>>
    /\ ast = <<>>
    /\ ScopeIdle
    /\ EnginesIdle
    /\ mergeArgs \in TypesOfDepth(MaxTypeDepth) \X TypesOfDepth(MaxTypeDepth)
    /\ merged = <<>>
    /\ RegistryIdle
    /\ ServiceIdle

\* CollectionInference.mergeTypes(a, b)
ApplyMergeTypes ==
    /\ merged = <<>>
    /\ merged' = <<MergeTypes(mergeArgs[1], mergeArgs[2])>>
    /\ UNCHANGED <<input, parserVars, scopeVars, monoVars, modularVars, runVars,
                   mergeArgs, registryVars,
                   heapVars, serviceVars>>

NextMerge == ApplyMergeTypes

SpecMerge == InitMerge /\ [][NextMerge]_vars

BothHaveSlots(a, b) ==
    /\ a.generics # None
    /\ b.generics # None
    /\ Len(a.generics[1]) = Len(b.generics[1])

-----------------------------------------------------------------------------
(* TypeRegistry (src/unnamed/part_008) *)

\* t(kind, generics?, readonlyName?)
TInfo(kind, generics, readonlyName) == Make(kind, generics, readonlyName, None)

\* generic(name): the placeholder of a generic parameter
Generic(name) == TInfo("Unknown", None, Some(name))

\* a ParamInfo
Param(name, type) == [name |-> name, type |-> type]

\* a MethodInfo, without its documentation text
Method(name, returnType, params) ==
    [name |-> name, returnType |-> returnType, params |-> params]

\* builtinTypes.set("Int", ...)
IntType ==
    [ methods |-> <<
        Method(<<"t","o","S","t","r","i","n","g">>, TInfo("String", None, None),
               <<>>),
        Method(<<"a","b","s">>, TInfo("Int", None, None),
               <<>>) >>,
      kind |-> "Int", name |-> SInt,
      genericParams |-> None,
      fields |-> <<>> ]

\* builtinTypes.set("String", ...)
StringType ==
    [ methods |-> <<
        Method(<<"l","e","n","g","t","h">>, TInfo("Int", None, None),
               <<>>),
        Method(<<"s","u","b","s","t","r","i","n","g">>, TInfo("String", None, None),
               <<Param(<<"s","t","a","r","t">>, TInfo("Int", None, None)),
                 Param(<<"e","n","d">>, TInfo("Int", None, None))>>),
        Method(<<"t","o","U","p","p","e","r","C","a","s","e">>, TInfo("String", None, None),
               <<>>),
        Method(<<"t","o","L","o","w","e","r","C","a","s","e">>, TInfo("String", None, None),
               <<>>),
        Method(<<"c","o","n","t","a","i","n","s">>, TInfo("Bool", None, None),
               <<Param(<<"s","t","r">>, TInfo("String", None, None))>>),
        Method(<<"s","t","a","r","t","s","W","i","t","h">>, TInfo("Bool", None, None),
               <<Param(<<"p","r","e","f","i","x">>, TInfo("String", None, None))>>),
        Method(<<"e","n","d","s","W","i","t","h">>, TInfo("Bool", None, None),
               <<Param(<<"s","u","f","f","i","x">>, TInfo("String", None, None))>>),
        Method(<<"t","r","i","m">>, TInfo("String", None, None),
               <<>>),
        Method(<<"s","p","l","i","t">>, TInfo("List", Some(<<TInfo("String", None, None)>>), None),
               <<Param(<<"d","e","l","i","m","i","t","e","r">>, TInfo("String", None, None))>>),
        Method(<<"r","e","p","l","a","c","e">>, TInfo("String", None, None),
               <<Param(<<"o","l","d">>, TInfo("String", None, None)),
                 Param(<<"n","e","w">>, TInfo("String", None, None))>>),
        Method(<<"c","h","a","r","A","t">>, TInfo("String", None, None),
               <<Param(<<"i","n","d","e","x">>, TInfo("Int", None, None))>>),
        Method(<<"i","n","d","e","x","O","f">>, TInfo("Int", None, None),
               <<Param(<<"s","t","r">>, TInfo("String", None, None))>>) >>,
      kind |-> "String", name |-> SString,
      genericParams |-> None,
      fields |-> <<>> ]

\* builtinTypes.set("Bool", ...)
BoolType ==
    [ methods |-> <<
        Method(<<"t","o","S","t","r","i","n","g">>, TInfo("String", None, None),
               <<>>) >>,
      kind |-> "Bool", name |-> SBool,
      genericParams |-> None,
      fields |-> <<>> ]

\* builtinTypes.set("List", ...)
ListType ==
    [ methods |-> <<
        Method(<<"a","d","d">>, TInfo("Unknown", None, Some(<<"U","n","i","t">>)),
               <<Param(<<"e","l","e","m","e","n","t">>, Generic(<<"T">>))>>),
        Method(<<"g","e","t">>, Generic(<<"T">>),
               <<Param(<<"i","n","d","e","x">>, TInfo("Int", None, None))>>),
        Method(<<"s","e","t">>, TInfo("Unknown", None, Some(<<"U","n","i","t">>)),
               <<Param(<<"i","n","d","e","x">>, TInfo("Int", None, None)),
                 Param(<<"e","l","e","m","e","n","t">>, Generic(<<"T">>))>>),
        Method(<<"r","e","m","o","v","e">>, TInfo("Bool", None, None),
               <<Param(<<"i","n","d","e","x">>, TInfo("Int", None, None))>>),
        Method(<<"s","i","z","e">>, TInfo("Int", None, None),
               <<>>),
        Method(<<"i","s","E","m","p","t","y">>, TInfo("Bool", None, None),
               <<>>),
        Method(<<"c","o","n","t","a","i","n","s">>, TInfo("Bool", None, None),
               <<Param(<<"e","l","e","m","e","n","t">>, Generic(<<"T">>))>>),
        Method(<<"i","n","d","e","x","O","f">>, TInfo("Int", None, None),
               <<Param(<<"e","l","e","m","e","n","t">>, Generic(<<"T">>))>>),
        Method(<<"c","l","e","a","r">>, TInfo("Unknown", None, Some(<<"U","n","i","t">>)),
               <<>>),
        Method(<<"f","i","r","s","t">>, Generic(<<"T">>),
               <<>>),
        Method(<<"l","a","s","t">>, Generic(<<"T">>),
               <<>>) >>,
      kind |-> "List", name |-> SList,
      genericParams |-> Some(<<<<"T">>>>),
      fields |-> <<>> ]

\* builtinTypes.set("MutableMap", ...)
MutableMapType ==
    [ methods |-> <<
        Method(<<"p","u","t">>, TInfo("Unknown", None, Some(<<"U","n","i","t">>)),
               <<Param(<<"k","e","y">>, Generic(<<"K">>)),
                 Param(<<"v","a","l","u","e">>, Generic(<<"V">>))>>),
        Method(<<"g","e","t">>, Generic(<<"V">>),
               <<Param(<<"k","e","y">>, Generic(<<"K">>))>>),
        Method(<<"r","e","m","o","v","e">>, TInfo("Bool", None, None),
               <<Param(<<"k","e","y">>, Generic(<<"K">>))>>),
        Method(<<"c","o","n","t","a","i","n","s","K","e","y">>, TInfo("Bool", None, None),
               <<Param(<<"k","e","y">>, Generic(<<"K">>))>>),
        Method(<<"c","o","n","t","a","i","n","s","V","a","l","u","e">>, TInfo("Bool", None, None),
               <<Param(<<"v","a","l","u","e">>, Generic(<<"V">>))>>),
        Method(<<"k","e","y","s">>, TInfo("List", Some(<<Generic(<<"K">>)>>), None),
               <<>>),
        Method(<<"v","a","l","u","e","s">>, TInfo("List", Some(<<Generic(<<"V">>)>>), None),
               <<>>),
        Method(<<"s","i","z","e">>, TInfo("Int", None, None),
               <<>>),
        Method(<<"i","s","E","m","p","t","y">>, TInfo("Bool", None, None),
               <<>>),
        Method(<<"c","l","e","a","r">>, TInfo("Unknown", None, Some(<<"U","n","i","t">>)),
               <<>>) >>,
      kind |-> "MutableMap", name |-> SMutableMap,
      genericParams |-> Some(<<<<"K">>, <<"V">>>>),
      fields |-> <<>> ]

\* builtinTypes.set("MutableSet", ...)
MutableSetType ==
    [ methods |-> <<
        Method(<<"a","d","d">>, TInfo("Bool", None, None),
               <<Param(<<"e","l","e","m","e","n","t">>, Generic(<<"T">>))>>),
        Method(<<"r","e","m","o","v","e">>, TInfo("Bool", None, None),
               <<Param(<<"e","l","e","m","e","n","t">>, Generic(<<"T">>))>>),
        Method(<<"c","o","n","t","a","i","n","s">>, TInfo("Bool", None, None),
               <<Param(<<"e","l","e","m","e","n","t">>, Generic(<<"T">>))>>),
        Method(<<"s","i","z","e">>, TInfo("Int", None, None),
               <<>>),
        Method(<<"i","s","E","m","p","t","y">>, TInfo("Bool", None, None),
               <<>>),
        Method(<<"c","l","e","a","r">>, TInfo("Unknown", None, Some(<<"U","n","i","t">>)),
               <<>>) >>,
      kind |-> "MutableSet", name |-> SMutableSet,
      genericParams |-> Some(<<<<"T">>>>),
      fields |-> <<>> ]

\* TypeRegistry.builtinTypes after initBuiltinTypes, keyed by kind
BuiltinTypes ==
    [k \in {"Int", "String", "Bool", "List", "MutableMap", "MutableSet"} |->
        IF k = "Int" THEN IntType
        ELSE IF k = "String" THEN StringType
        ELSE IF k = "Bool" THEN BoolType
        ELSE IF k = "List" THEN ListType
        ELSE IF k = "MutableMap" THEN MutableMapType
        ELSE MutableSetType]

\* a TypeKind as the string it is
KindChars(kind) ==
    IF kind = "Int" THEN SInt
    ELSE IF kind = "String" THEN SString
    ELSE IF kind = "Bool" THEN SBool
    ELSE IF kind = "List" THEN SList
    ELSE IF kind = "MutableMap" THEN SMutableMap
    ELSE IF kind = "MutableSet" THEN SMutableSet
    ELSE IF kind = "Function" THEN SFunction
    ELSE IF kind = "Custom" THEN <<"C","u","s","t","o","m">>
    ELSE IF kind = "Unknown" THEN <<"U","n","k","n","o","w","n">>
    ELSE <<"U","n","i","t">>

\* the genericMap of resolveGenericMethods
GenericMapFirstArgument(genericParams, generics) ==
    [name \in {genericParams[i] : i \in 1..Len(genericParams)} |-> generics[1]]

GenericMapOf(genericParams, generics) ==
    LET n == Min({Len(genericParams), Len(generics)})
    IN  [name \in {genericParams[i] : i \in 1..n} |->
            generics[Max({i \in 1..n : genericParams[i] = name})]]

\* TypeRegistry.resolveGenericType
RECURSIVE ResolveGenericType(_, _)
ResolveGenericType(type, genericMap) ==
    IF /\ type.readonlyName # None
       /\ type.readonlyName[1] # <<>>
       /\ MapHas(genericMap, type.readonlyName[1])
    THEN genericMap[type.readonlyName[1]]
    ELSE IF type.generics # None
    THEN [type EXCEPT !.generics =
             Some([i \in 1..Len(type.generics[1]) |->
                      ResolveGenericType(type.generics[1][i], genericMap)])]
    ELSE type

\* the placeholders replaced one after the other, each over the outcome of
\* the one before
ResolveGenericMethodsInTurn(typeDef, typeInfo) ==
    IF typeDef.genericParams = None \/ typeInfo.generics = None
    THEN typeDef.methods
    ELSE LET ps == typeDef.genericParams[1]
             gs == typeInfo.generics[1]
             n == Min({Len(ps), Len(gs)})
             InTurn(type) ==
                 LET f[i \in 0..n] ==
                         IF i = 0 THEN type
                         ELSE ResolveGenericType(f[i - 1],
                                  [name \in {ps[i]} |-> gs[i]])
                 IN  f[n]
         IN  [m \in 1..Len(typeDef.methods) |->
                [typeDef.methods[m] EXCEPT
                    !.returnType = InTurn(@),
                    !.params = [p \in 1..Len(@) |->
                                   [@[p] EXCEPT !.type = InTurn(@)]]]]

\* TypeRegistry.resolveGenericMethods
ResolveGenericMethods(typeDef, typeInfo) ==
    IF typeDef.genericParams = None \/ typeInfo.generics = None
    THEN typeDef.methods
    ELSE LET genericMap == GenericMapOf(typeDef.genericParams[1],
                                        typeInfo.generics[1])
         IN  [m \in 1..Len(typeDef.methods) |->
                [typeDef.methods[m] EXCEPT
                    !.returnType = ResolveGenericType(@, genericMap),
                    !.params = [p \in 1..Len(@) |->
                                   [@[p] EXCEPT
                                       !.type = ResolveGenericType(@, genericMap)]]]]

\* TypeRegistry.getMethodsForType, users the userTypes map
GetMethodsForType(users, typeInfo) ==
    IF typeInfo.kind \in DOMAIN BuiltinTypes
    THEN ResolveGenericMethods(BuiltinTypes[typeInfo.kind], typeInfo)
    ELSE LET typeName == IF typeInfo.readonlyName # None
                         THEN typeInfo.readonlyName[1]
                         ELSE KindChars(typeInfo.kind)
         IN  IF MapHas(users, typeName) THEN users[typeName].methods ELSE <<>>

-----------------------------------------------------------------------------
(* The registry as a state machine: after construction, the methods of an   *)
(* instance type are asked for.                                             *)

\* the instance types asked about
InstanceTypes ==
    TypesOfDepth(MaxTypeDepth)
    \cup {MakeKind("Bool"), MakeKind("MutableSet"), MakeKind("MutableMap")}
    \cup {MakeGeneric("MutableSet", <<g>>) : g \in TypesOfDepth(MaxTypeDepth)}
    \cup {MakeGeneric("MutableMap", <<k>>) : k \in BaseTypes}
    \cup {MakeGeneric("List", <<g, h>>) : g, h \in BaseTypes}
    \cup {MakeGeneric("MutableMap", <<k, MakeGeneric("List", <<v>>)>>) :
             k, v \in BaseTypes}

InitRegistry ==
    /\ input = <<>>
    /\ text = <<>>
    /\ ast = <<>>
    /\ ScopeIdle
    /\ EnginesIdle
    /\ MergeIdle
    /\ RegistryIdle
    /\ ServiceIdle

\* TypeRegistry.getMethodsForType(typeInfo)
MethodsForType(typeInfo) ==
    /\ instanceType' = <<typeInfo>>
    /\ methods' = GetMethodsForType(userTypes, typeInfo)
    /\ UNCHANGED <<input, parserVars, scopeVars, monoVars, modularVars, runVars,
                   mergeVars, userTypes, collectedFrom, lookupName, definition,
                   heapVars, serviceVars>>

NextRegistry == \E typeInfo \in InstanceTypes : MethodsForType(typeInfo)

SpecRegistry == InitRegistry /\ [][NextRegistry]_vars

\* a type of a built-in method table with the placeholders of the declared
\* parameters replaced by the arguments at the same positions
RECURSIVE Substituted(_, _, _)
Substituted(type, genericParams, generics) ==
    LET at == {i \in 1..Min({Len(genericParams), Len(generics)}) :
                  type = Generic(genericParams[i])}
    IN  IF at # {} THEN generics[Min(at)]
        ELSE IF type.generics # None
        THEN [type EXCEPT !.generics =
                 Some([i \in 1..Len(type.generics[1]) |->
                          Substituted(type.generics[1][i], genericParams,
                                      generics)])]
        ELSE type

\* the method of that name in the list returned last
MethodNamed(name) ==
    methods[CHOOSE m \in 1..Len(methods) : methods[m].name = name]

IsGenericInstance ==
    /\ instanceType # <<>>
    /\ instanceType[1].kind \in {"List", "MutableMap", "MutableSet"}
    /\ instanceType[1].generics # None

\* C10: the methods returned for an instance of List, MutableMap or
\* MutableSet are those of the built-in table with each placeholder T, K, V
\* replaced by the generic argument of the instance at the same position, in
\* return types and parameter types and through nested generics; List<Int>
\* has get returning Int and add(element: Int), MutableMap<String, Int> has
\* keys returning List<String>.
PlaceholdersReplaced ==
    IsGenericInstance =>
        LET table == BuiltinTypes[instanceType[1].kind]
            ps == table.genericParams[1]
            as == instanceType[1].generics[1]
        IN  /\ Len(methods) = Len(table.methods)
            /\ \A m \in 1..Len(methods) :
                  /\ methods[m].name = table.methods[m].name
                  /\ methods[m].returnType =
                         Substituted(table.methods[m].returnType, ps, as)
                  /\ Len(methods[m].params) = Len(table.methods[m].params)
                  /\ \A p \in 1..Len(methods[m].params) :
                        /\ methods[m].params[p].name
                               = table.methods[m].params[p].name
                        /\ methods[m].params[p].type =
                               Substituted(table.methods[m].params[p].type, ps, as)
            /\ instanceType[1] = MakeGeneric("List", <<MakeKind("Int")>>) =>
                  /\ MethodNamed(<<"g","e","t">>).returnType = MakeKind("Int")
                  /\ MethodNamed(<<"a","d","d">>).params[1].type = MakeKind("Int")
            /\ instanceType[1] = MakeGeneric("MutableMap",
                                     <<MakeKind("String"), MakeKind("Int")>>) =>
                  MethodNamed(<<"k","e","y","s">>).returnType =
                      MakeGeneric("List", <<MakeKind("String")>>)

\* the methods of a MutableMap<String, Int> were asked for: get returns Int
\* and values returns List<Int>
MapMethodsResolved ==
    /\ instanceType =
           <<MakeGeneric("MutableMap", <<MakeKind("String"), MakeKind("Int")>>)>>
    /\ MethodNamed(<<"g","e","t">>).returnType = MakeKind("Int")
    /\ MethodNamed(<<"v","a","l","u","e","s">>).returnType =
           MakeGeneric("List", <<MakeKind("Int")>>)

-----------------------------------------------------------------------------
(* TypeRegistry: the user-defined types harvested from a tree               *)
(* (src/unnamed/part_008).  parseCommaSeparated, parseTypeString and        *)
(* typeNameToKind of the registry are the same code as those of TypeParser. *)

\* t("Unknown", undefined, "Unit")
UnknownUnit == TInfo("Unknown", None, Some(<<"U","n","i","t">>))

\* a FieldInfo
Field(name, type, mutable) == [name |-> name, type |-> type, mutable |-> mutable]

\* the regex of parseMethodFromLine with fun at position p: <<>> or
\* <<name, params, returnType>>, returnType None when the group (?:\s*->\s*(.+))
\* did not take part, else Some of its text, trimmed
MethodMatchAt(line, p) ==
    IF ~KwIdentAt(line, p, KwFun) THEN <<>>
    ELSE Only({
      IF ~(b <= Len(line) /\ line[b] = "(" /\ closing # {}) THEN <<>>
      ELSE Only({<<SubSeq(line, n, IdentEnd(line, n) - 1),
                   SubSeq(line, b + 1, Min(closing) - 1),
                   IF StartsWithAt(line, g, <<"-", ">">>) /\ g + 2 <= Len(line)
                   THEN Some(Trim(SubSeq(line, g + 2, Len(line))))
                   ELSE None>> :
                    g \in {SkipSpaces(line, Min(closing) + 1)}}) :
         n \in {SkipSpaces(line, p + 3)},
         b \in {SkipSpaces(line, IdentEnd(line, SkipSpaces(line, p + 3)))},
         closing \in {{c \in 1..Len(line) :
                         /\ c > SkipSpaces(line, IdentEnd(line, SkipSpaces(line, p + 3)))
                         /\ line[c] = ")"}}})

\* line.match(/(?:io\s+)?fun\s+([a-zA-Z_][a-zA-Z0-9_]*)\s*\(([^)]*)\)(?:\s*->\s*(.+))?/)
MethodMatch(line) ==
    Only({IF P = {} THEN <<>> ELSE MethodMatchAt(line, Min(P)) :
             P \in {{p \in 1..Len(line) : MethodMatchAt(line, p) # <<>>}}})

\* part.match(/([a-zA-Z_][a-zA-Z0-9_]*)\s*:\s*(.+)/) from position i: <<>> or
\* <<name, type>>, the type trimmed
ParamMatchAt(part, i) ==
    Only({IF IsIdStart(part[i]) /\ q < Len(part) /\ part[q] = ":"
          THEN <<SubSeq(part, i, e - 1), Trim(SubSeq(part, q + 1, Len(part)))>>
          ELSE <<>> :
             e \in {IdentEnd(part, i)},
             q \in {SkipSpaces(part, IdentEnd(part, i))}})

ParamMatch(part) ==
    Only({IF P = {} THEN <<>> ELSE ParamMatchAt(part, Min(P)) :
             P \in {{i \in 1..Len(part) : ParamMatchAt(part, i) # <<>>}}})

\* the loop of parseParams over the parts from the k-th on
RECURSIVE ParamsFrom(_, _, _)
ParamsFrom(parts, k, params) ==
    IF k > Len(parts) THEN params
    ELSE Only({ParamsFrom(parts, k + 1,
                   IF m = <<>> THEN params
                   ELSE Append(params, Param(m[1], ParseTypeString(m[2])))) :
                  m \in {ParamMatch(parts[k])}})

\* TypeRegistry.parseParams
ParseParams(paramsStr) ==
    IF Trim(paramsStr) = <<>> THEN <<>>
    ELSE ParamsFrom(ParseCommaSeparated(paramsStr), 1, <<>>)

\* TypeRegistry.parseMethodFromLine: None for null
ParseMethodFromLine(node, lines) ==
    IF node.line < 0 \/ node.line >= Len(lines) THEN None
    ELSE Only({
      IF funMatch = <<>>
      THEN Some(Method(node.name, UnknownUnit, <<>>))
      ELSE Some(Method(node.name,
                       IF funMatch[3] # None
                       THEN ParseTypeString(funMatch[3][1])
                       ELSE UnknownUnit,
                       ParseParams(funMatch[2]))) :
         funMatch \in {MethodMatch(Trim(lines[node.line + 1]))}})

\* the regex of parseFieldFromLine with var or val at position p:
\* <<keyword, type>>, type None when the group (?:\s*:\s*([^=]+)) did not take
\* part, else Some of its text, trimmed
FieldMatchAt(line, p) ==
    Only({<<SubSeq(line, p, p + 2),
            IF q <= Len(line) /\ line[q] = ":" /\ stop > q + 1
            THEN Some(Trim(SubSeq(line, q + 1, stop - 1)))
            ELSE None>> :
             q \in {SkipSpaces(line, IdentEnd(line, SkipSpaces(line, p + 3)))},
             stop \in {Min({j \in 1..(Len(line) + 1) :
                              /\ j > SkipSpaces(line, IdentEnd(line,
                                         SkipSpaces(line, p + 3)))
                              /\ j = Len(line) + 1 \/ line[j] = "="})}})

\* line.match(/\b(var|val)\s+([a-zA-Z_][a-zA-Z0-9_]*)(?:\s*:\s*([^=]+))?/)
FieldMatch(line) ==
    Only({IF P = {} THEN <<>> ELSE FieldMatchAt(line, Min(P)) :
             P \in {{p \in 1..Len(line) : VarKeywordAt(line, p)}}})

\* TypeRegistry.parseFieldFromLine: None for null
ParseFieldFromLine(node, lines) ==
    IF node.line < 0 \/ node.line >= Len(lines) THEN None
    ELSE Only({
      IF varMatch = <<>>
      THEN Some(Field(node.name, TInfo("Unknown", None, None), TRUE))
      ELSE Some(Field(node.name,
                      IF varMatch[2] # None
                      THEN ParseTypeString(varMatch[2][1])
                      ELSE TInfo("Unknown", None, None),
                      varMatch[1] = KwVar)) :
         varMatch \in {FieldMatch(Trim(lines[node.line + 1]))}})

\* the loop of extractTypeDefinition over the children kids of the node
RECURSIVE MembersFrom(_, _, _, _)
MembersFrom(tree, kids, lines, def) ==
    IF kids = <<>> THEN def
    ELSE Only({MembersFrom(tree, Tail(kids), lines, next) :
                  next \in {Only({
                    IF child.kind = "function"
                    THEN Only({IF methodInfo = None THEN def
                               ELSE [def EXCEPT !.methods = Append(@, methodInfo[1])] :
                                  methodInfo \in {ParseMethodFromLine(child, lines)}})
                    ELSE IF child.kind = "variable"
                    THEN Only({IF fieldInfo = None THEN def
                               ELSE [def EXCEPT !.fields = Append(@, fieldInfo[1])] :
                                  fieldInfo \in {ParseFieldFromLine(child, lines)}})
                    ELSE def :
                       child \in {tree[Head(kids)]}})}})

\* TypeRegistry.extractTypeDefinition of node id
ExtractTypeDefinition(tree, id, lines) ==
    MembersFrom(tree, Children(tree, id), lines,
        [methods |-> <<>>, kind |-> "Custom", name |-> tree[id].name,
         genericParams |-> None, fields |-> <<>>])

\* this.userTypes.clear()
ClearedKept(users) == users

Cleared(users) == EmptyMap

\* TypeRegistry.collectTypesRecursive from node id, users the userTypes map
RECURSIVE CollectTypesRecursive(_, _, _, _)
RECURSIVE CollectTypesOfChildren(_, _, _, _)
CollectTypesOfChildren(tree, kids, lines, users) ==
    IF kids = <<>> THEN users
    ELSE Only({CollectTypesOfChildren(tree, Tail(kids), lines, next) :
                  next \in {CollectTypesRecursive(tree, Head(kids), lines, users)}})

CollectTypesRecursive(tree, id, lines, users) ==
    Only({CollectTypesOfChildren(tree, Children(tree, id), lines, next) :
             next \in {IF tree[id].kind = "class" \/ tree[id].kind = "actor"
                       THEN MapSet(users, tree[id].name,
                                   ExtractTypeDefinition(tree, id, lines))
                       ELSE users}})

\* TypeRegistry.collectUserTypes, giving the new userTypes map
CollectUserTypesOf(tree, lines, users) ==
    CollectTypesRecursive(tree, 1, lines, Cleared(users))

\* the keys of builtinTypes, as the strings they are
BuiltinNames == {KindChars(k) : k \in DOMAIN BuiltinTypes}

\* TypeRegistry.getTypeDefinition: None for undefined
GetTypeDefinition(users, name) ==
    IF name \in BuiltinNames
    THEN Some(BuiltinTypes[CHOOSE k \in DOMAIN BuiltinTypes : KindChars(k) = name])
    ELSE IF MapHas(users, name) THEN Some(users[name])
    ELSE None

-----------------------------------------------------------------------------
(* The registry's user catalog as a state machine: collectUserTypes is      *)
(* called on a document and its tree, any number of times, and              *)
(* getTypeDefinition is asked for a name.                                    *)

\* the most lines after the opening line of the actor of a harvested document
MaxBodyLines == 2

SFunColon == <<"f","u","n"," ","m","(","p",":"," ","P",")",":"," ","R"," ","{">>
SFunArrow == <<"f","u","n"," ","m","(","p",":"," ","I","n","t",")"," ","-",">"," ","B","o","o","l"," ","{">>
SFieldCount == <<"v","a","r"," ","c","o","u","n","t",":"," ","I","n","t">>
SClassC == <<"c","l","a","s","s"," ","C">>
SClassList == <<"c","l","a","s","s"," ","L","i","s","t">>
SActorB == <<"a","c","t","o","r"," ","B"," ","{">>

\* the lines inside the actor
BodyLines == {SFunColon, SFunArrow, SFieldCount}

\* the lines up to and including the opening line of the actor
DocHeads == {<<SActorA>>, <<SClassC, SActorA>>, <<SClassList, SActorB>>}

HarvestDocs ==
    {head \o body : head \in DocHeads,
                    body \in UNION {[1..n -> BodyLines] : n \in 0..MaxBodyLines}}

\* the names getTypeDefinition is asked for
LookupNames == {SInt, SList, <<"C">>}

\* TypeRegistry.collectUserTypes(Parser.parse(doc), doc)
CollectUserTypes(doc) ==
    \E tree \in {ParseLines(doc)} :
        \E users \in {CollectUserTypesOf(tree, doc, userTypes)} :
            /\ userTypes' = users
            /\ collectedFrom' = <<tree, doc>>
            /\ UNCHANGED <<input, parserVars, scopeVars, monoVars, modularVars,
                           runVars, mergeVars, instanceType, methods, lookupName,
                           definition,
                           heapVars, serviceVars>>

\* TypeRegistry.getTypeDefinition(name)
TypeDefinitionOf(name) ==
    \E found \in {GetTypeDefinition(userTypes, name)} :
        /\ lookupName' = <<name>>
        /\ definition' = found
        /\ UNCHANGED <<input, parserVars, scopeVars, monoVars, modularVars,
                       runVars, mergeVars, userTypes, instanceType, methods,
                       collectedFrom,
                       heapVars, serviceVars>>

NextUserTypes ==
    \/ \E doc \in HarvestDocs : CollectUserTypes(doc)
    \/ \E name \in LookupNames : TypeDefinitionOf(name)

SpecUserTypes == InitRegistry /\ [][NextUserTypes]_vars

\* the tree collectUserTypes was last called on
CollectedTree == collectedFrom[1]

\* the function nodes directly inside actor nodes of that tree whose line is
\* `fun m(p: P): R {`
ColonMethods ==
    {f \in 1..Len(CollectedTree) :
        /\ CollectedTree[f].kind = "function"
        /\ CollectedTree[CollectedTree[f].parent].kind = "actor"
        /\ collectedFrom[2][CollectedTree[f].line + 1] = SFunColon}

\* the methods the catalog holds under the name of the actor around node f
HarvestedMethodsAround(f) ==
    userTypes[CollectedTree[CollectedTree[f].parent].name].methods

\* C11: for a function `fun m(p: P): R` directly inside an actor, the method
\* harvested for the actor has name m, the parameter (p, P) and the return
\* type R, which is the return type the return-type pass of the inference
\* engine records for m.
HarvestedMethodMatchesReturnPass ==
    collectedFrom # <<>> =>
        \A f \in ColonMethods :
            \E k \in 1..Len(HarvestedMethodsAround(f)) :
                LET method == HarvestedMethodsAround(f)[k]
                    returns == CollectFunctionReturnTypes(CollectedTree,
                                   collectedFrom[2], EmptyMap)
                IN  /\ method.name = <<"m">>
                    /\ method.params =
                           <<Param(<<"p">>, Make("Custom", None, Some(<<"P">>), None))>>
                    /\ method.returnType = Make("Custom", None, Some(<<"R">>), None)
                    /\ method.returnType = returns[<<"m">>]

\* the names of the class and actor nodes of the tree collected last
CollectedTypeNames ==
    {CollectedTree[k].name :
        k \in {j \in 1..Len(CollectedTree) :
                  CollectedTree[j].kind \in {"class", "actor"}}}

-----------------------------------------------------------------------------
(* Declarations initialised with one expression: the document is an actor   *)
(* holding `val r = <expression>`, with lines before it and after it that   *)
(* declare a function f or a variable y.                                     *)

SFunF == <<"f","u","n"," ","f","(",")",":"," ","I","n","t"," ","{">>
SValY == <<"v","a","l"," ","y"," ","="," ","5">>
SValR == <<"v","a","l"," ","r"," ","="," ">>

NumericLiterals ==
    { <<"5">>,
      <<"3",".","1","4">>,
      <<"-","5">> }

StringLiterals ==
    { <<"\"","h","i","\"">>,
      <<"\"","\"">>,
      <<"\"","f","(",")","\"">> }

BoolLiterals ==
    { <<"t","r","u","e">>,
      <<"f","a","l","s","e">> }

\* constructor calls of the built-in collections
ListExprs ==
    { <<"L","i","s","t","<","I","n","t",">",".","n","e","w","(",")">>,
      <<"L","i","s","t",".","n","e","w","(",")">>,
      <<"L","i","s","t","<","L","i","s","t","<","I","n","t",">",">",".","n","e","w","(",")">>,
      <<"L","i","s","t",".","n","e","w","(","1",")">>,
      <<"L","i","s","t",".","n","e","w","(","F","o","o","<","I","n","t",">",".","n","e","w","(",")",")">> }

MapExprs ==
    { <<"M","u","t","a","b","l","e","M","a","p","<","S","t","r","i","n","g",","," ","I","n","t",">",".","n","e","w","(",")">>,
      <<"M","u","t","a","b","l","e","M","a","p",".","n","e","w","(",")">> }

SetExprs ==
    { <<"M","u","t","a","b","l","e","S","e","t",".","n","e","w","(",")">> }

CollectionExprs == ListExprs \cup MapExprs \cup SetExprs

\* constructor calls of a user type
CustomExprs ==
    { <<"F","o","o",".","n","e","w","(",")">>,
      <<"F","o","o","<","I","n","t",">",".","n","e","w","(",")">> }

\* calls of the function f
CallsOfF ==
    { <<"f","(",")">>,
      <<"f","(","1",")">> }

\* a call of a function g that is declared nowhere
CallsOfG ==
    { <<"g","(",")">> }

CallExprs == CallsOfF \cup CallsOfG

\* the variable y and a name z that is declared nowhere
IdentifierExprs ==
    { <<"y">>,
      <<"z">> }

\* expressions of no recognised form
OtherExprs ==
    { <<"a",".","b">>,
      <<"[","1","]">> }

InitializerExprs ==
    NumericLiterals \cup StringLiterals \cup BoolLiterals \cup CollectionExprs
        \cup CustomExprs \cup CallExprs \cup IdentifierExprs \cup OtherExprs

\* the lines before and after the declaration of r
ContextLines == {<<>>, <<SFunF>>, <<SValY>>}

InitializerInputs ==
    [expr : InitializerExprs, before : ContextLines, after : ContextLines]

\* actor A {
\* <before>
\* val r = <expression>
\* <after>
InitializerDoc(in) ==
    <<SActorA>> \o in.before \o <<SValR \o in.expr>> \o in.after

InitInitializers ==
    /\ input \in InitializerInputs
    /\ text = InitializerDoc(input)
    /\ ast = ParseLines(text)
    /\ ScopeIdle
    /\ EnginesIdle
    /\ MergeIdle
    /\ RegistryIdle
    /\ ServiceIdle

NextInitializers ==
    \/ InferFromText
    \/ EngineInferFromText

SpecInitializers == InitInitializers /\ [][NextInitializers]_vars

IsInitializerInput == input # <<>> /\ "expr" \in DOMAIN input

\* the entry of r in the map the passes of the last run wrote
TypeOfR == WorkingMap[<<"r">>]

-----------------------------------------------------------------------------
(* Blocks without a closing brace *)

\* the nodes of the tree that were given their end by findBlockEnd
BlockNodes == NodesOfKind(ast, {"actor", "function", "block"})

\* C13: when no closing brace brings the count of braces opened at or after
\* a declaring line back to zero, the end line of the block declared there is
\* the last line of the document, and parse returns a tree with the program
\* root all the same.
UnclosedBlockEndsAtLastLine ==
    ast # <<>> =>
        /\ ast[1].kind = "program"
        /\ \A n \in BlockNodes :
              Unclosed(text, ast[n].line) => ast[n].endLine = Len(text) - 1

\* a block that is never closed is declared before the last line, and a
\* later block of the same tree is closed
UnclosedBlockBeforeClosedBlock ==
    /\ ast # <<>>
    /\ \E n, c \in BlockNodes :
          /\ Unclosed(text, ast[n].line)
          /\ ast[n].line < Len(text) - 1
          /\ ast[n].endLine = Len(text) - 1
          /\ ~Unclosed(text, ast[c].line)
          /\ ast[c].endLine < Len(text) - 1

-----------------------------------------------------------------------------
(* inferFromText of inference.ts step by step: the passes up to              *)
(* scanAssignments, then the loop of scanCollectionUsages one line at a      *)
(* time, then scanBinaryOps and the return.  The document declares x without *)
(* annotation or initializer, declares m in one of several ways or not at    *)
(* all, and then calls put and add on m; or it declares m and n with binary *)
(* expressions.                                                              *)

\* the most put and add calls in a document
MaxCalls == 2

PutLines ==
    { <<"m",".","p","u","t","(","\"","a","\"",","," ","1",")">>,
      <<"m",".","p","u","t","(","1",","," ","\"","a","\"",")">>,
      <<"m",".","p","u","t","(","\"","a","\"",","," ","x",")">>,
      <<"m",".","p","u","t","(","x",","," ","1",")">> }

AddLines ==
    { <<"m",".","a","d","d","(","1",")">>,
      <<"m",".","a","d","d","(","\"","a","\"",")">>,
      <<"m",".","a","d","d","(","x",")">> }

SVarM == <<"v","a","r"," ","m">>

\* declarations of m that give it an entry without Unknown
KnownDeclarations ==
    { <<"v","a","l"," ","m"," ","="," ","M","u","t","a","b","l","e","M","a","p","<","S","t","r","i","n","g",","," ","I","n","t",">",".","n","e","w","(",")">>,
      <<"v","a","l"," ","m"," ","="," ","M","u","t","a","b","l","e","S","e","t","<","I","n","t",">",".","n","e","w","(",")">>,
      <<"v","a","l"," ","m"," ","="," ","5">>,
      <<"v","a","l"," ","m"," ","="," ","F","o","o",".","n","e","w","(",")">> }

\* declarations of m that give it a collection entry with Unknown slots
OpenDeclarations ==
    { <<"v","a","l"," ","m"," ","="," ","M","u","t","a","b","l","e","M","a","p",".","n","e","w","(",")">>,
      <<"v","a","l"," ","m"," ","="," ","L","i","s","t",".","n","e","w","(",")">> }

\* the declaration of m: none, var m, or one of the initialised ones
Declarations ==
    {<<>>, <<SVarM>>} \cup {<<d>> : d \in KnownDeclarations \cup OpenDeclarations}

\* the most declarations with a binary expression in a document
MaxDeclarations == 2

\* declarations initialised with an expression that holds an operator; the
\* initializer pass gives m Unknown, String, Int, List<Unknown> and List<Int>
BinaryDeclarations ==
    { <<"v","a","l"," ","m"," ","="," ","1"," ","+"," ","2">>,
      <<"v","a","l"," ","m"," ","="," ","\"","a","\""," ","-"," ","\"","b","\"">>,
      <<"v","a","l"," ","m"," ","="," ","-","5">>,
      <<"v","a","l"," ","m"," ","="," ","L","i","s","t",".","n","e","w","(",")"," ","+"," ","1">>,
      <<"v","a","l"," ","m"," ","="," ","L","i","s","t","<","I","n","t",">",".","n","e","w","(",")"," ","+"," ","1">>,
      <<"v","a","l"," ","n"," ","="," ","m"," ","+"," ","1">> }

\* a document with put and add calls on m, or one with binary declarations
UsageInputs ==
    [declaration : Declarations,
     calls : UNION {[1..n -> PutLines \cup AddLines] : n \in 0..MaxCalls}]
    \cup [declaration : UNION {[1..n -> BinaryDeclarations] : n \in 1..MaxDeclarations},
          calls : {<<>>}]

\* actor A {
\* var x
\* <declaration of m>
\* <calls>
UsageDoc(in) == <<SActorA, SVarX>> \o in.declaration \o in.calls

InitUsages ==
    /\ input \in UsageInputs
    /\ text = UsageDoc(input)
    /\ ast = ParseLines(text)
    /\ ScopeIdle
    /\ EnginesIdle
    /\ MergeIdle
    /\ RegistryIdle
    /\ ServiceIdle

\* inferFromText up to and including scanAssignments
InferFromTextBegin ==
    \E returns \in {CollectFunctionReturnTypes(ast, text, EmptyMap)} :
        \E declared \in {DeclarationPasses(text, ast, EmptyMap, returns)} :
            /\ lastRun = <<>>
            /\ types' = declared
            /\ functionReturnTypes' = returns
            /\ lastRun' = RunRecord("monolithic", EmptyMap, EmptyMap)
            /\ scanned' = 0
            /\ UNCHANGED <<input, parserVars, scopeVars, modularVars, result, runs,
                           mergeVars, registryVars,
                           heapVars, serviceVars>>

\* one turn of the loop of scanCollectionUsages
ScanCollectionUsagesStep ==
    /\ lastRun # <<>>
    /\ runs = 0
    /\ scanned < Len(text)
    /\ \E scannedTypes \in {ScanCollectionLine(text[scanned + 1],
                                functionReturnTypes, types)} :
           /\ types' = scannedTypes
           /\ scanned' = scanned + 1
           /\ UNCHANGED <<input, parserVars, scopeVars, functionReturnTypes,
                          modularVars, result, lastRun, runs, mergeVars,
                          registryVars,
                          heapVars, serviceVars>>

\* scanBinaryOps and the return of inferFromText
InferFromTextEnd ==
    /\ lastRun # <<>>
    /\ runs = 0
    /\ scanned = Len(text)
    /\ \E final \in {ScanBinaryOps(text, types)} :
           /\ types' = final
           /\ result' = final
           /\ runs' = runs + 1
           /\ UNCHANGED <<input, parserVars, scopeVars, functionReturnTypes,
                          modularVars, lastRun, scanned, mergeVars, registryVars,
                          heapVars, serviceVars>>

NextUsages ==
    \/ InferFromTextBegin
    \/ ScanCollectionUsagesStep
    \/ InferFromTextEnd

SpecUsages == InitUsages /\ [][NextUsages]_vars

SVarNameM == <<"m">>

\* slot k (1: key, 2: value) of the MutableMap entry of m in tmap has a kind
\* other than Unknown
SlotSettled(tmap, k) ==
    /\ MapHas(tmap, SVarNameM)
    /\ tmap[SVarNameM].kind = "MutableMap"
    /\ tmap[SVarNameM].generics # None
    /\ Len(tmap[SVarNameM].generics[1]) >= k
    /\ tmap[SVarNameM].generics[1][k].kind # "Unknown"

\* the step is a turn of the loop of scanCollectionUsages on a line of set
\* callLines
ScansOneOf(callLines) ==
    /\ lastRun # <<>>
    /\ runs = 0
    /\ scanned < Len(text)
    /\ scanned' = scanned + 1
    /\ text[scanned + 1] \in callLines

\* C15: across the put calls on m, once the key slot or the value slot of m's
\* MutableMap entry has a kind other than Unknown, no later put changes that
\* slot's kind.
PutKeepsSettledSlot ==
    [][\A k \in 1..2 :
          ScansOneOf(PutLines) /\ SlotSettled(types, k) =>
              /\ SlotSettled(types', k)
              /\ types'[SVarNameM].generics[1][k].kind
                     = types[SVarNameM].generics[1][k].kind]_vars

\* the kinds inferExpressionType gives the two arguments of a line of PutLines
\* (x is declared var x: its entry is Unknown)
PutArgKinds(line) ==
    IF line = <<"m",".","p","u","t","(","\"","a","\"",","," ","1",")">>
    THEN <<"String", "Int">>
    ELSE IF line = <<"m",".","p","u","t","(","1",","," ","\"","a","\"",")">>
    THEN <<"Int", "String">>
    ELSE IF line = <<"m",".","p","u","t","(","\"","a","\"",","," ","x",")">>
    THEN <<"String", "Unknown">>
    ELSE <<"Unknown", "Int">>

\* the kind of a slot after merging an observed kind into it: the recorded
\* kind unless it is Unknown
MergedKind(recorded, observed) ==
    IF recorded = "Unknown" THEN observed ELSE recorded

\* the kinds of the two slots of m's entry in tmap
SlotKinds(tmap) ==
    [k \in 1..2 |-> GenericSlot(tmap[SVarNameM], k).kind]

\* C16: put(k, v) on m creates the entry MutableMap<type of k, type of v> only
\* when m has no entry or its entry is Unknown; when the entry is a MutableMap
\* the two types are merged into its slots; an entry of any other kind is left
\* unchanged.
PutCreatesMergesOrLeaves ==
    [][ScansOneOf(PutLines) =>
          LET observed == PutArgKinds(text[scanned + 1])
          IN  IF ~MapHas(types, SVarNameM) \/ types[SVarNameM].kind = "Unknown"
              THEN /\ types'[SVarNameM].kind = "MutableMap"
                   /\ SlotKinds(types') = observed
              ELSE IF types[SVarNameM].kind = "MutableMap"
              THEN /\ types'[SVarNameM].kind = "MutableMap"
                   /\ SlotKinds(types') =
                          [k \in 1..2 |->
                              MergedKind(SlotKinds(types)[k], observed[k])]
              ELSE types' = types]_vars

\* m has no entry in tmap, or an entry that is neither a List nor a MutableSet
NoCollectionEntry(tmap) ==
    ~MapHas(tmap, SVarNameM) \/ tmap[SVarNameM].kind \notin {"List", "MutableSet"}

\* C18: add(x) on a name whose entry is absent, is Unknown or has a kind other
\* than List or MutableSet leaves the whole type map unchanged.
AddGuessesNoCollection ==
    [][ScansOneOf(AddLines) /\ NoCollectionEntry(types) => types' = types]_vars

\* the loop has gone through two add lines on m, which is declared nowhere,
\* and m has no entry
AddsScannedOnUndeclaredName ==
    /\ lastRun # <<>>
    /\ scanned = Len(text)
    /\ input.declaration = <<>>
    /\ Len(input.calls) = 2
    /\ \A i \in 1..2 : input.calls[i] \in AddLines
    /\ ~MapHas(types, SVarNameM)

\* a type descriptor holds Unknown somewhere in its structure
RECURSIVE HoldsUnknown(_)
HoldsUnknown(t) ==
    \/ t.kind = "Unknown"
    \/ /\ t.generics # None
       /\ \E k \in 1..Len(t.generics[1]) : HoldsUnknown(t.generics[1][k])

\* the step is the scanBinaryOps pass of the run
RunsBinaryOpPass ==
    /\ lastRun # <<>>
    /\ runs = 0
    /\ scanned = Len(text)
    /\ runs' = 1

\* C17: the binary-operation pass changes the entry of a variable only when
\* the entry is absent or holds Unknown somewhere in its structure; an entry
\* that holds no Unknown is identical before and after the pass.
BinaryOpPassKeepsResolved ==
    [][RunsBinaryOpPass =>
          /\ \A name \in DOMAIN types :
                ~HoldsUnknown(types[name]) =>
                    MapHas(types', name) /\ types'[name] = types[name]
          /\ \A name \in DOMAIN types' :
                ~MapHas(types, name) \/ types'[name] # types[name] =>
                    ~MapHas(types, name) \/ HoldsUnknown(types[name])]_vars

\* the pass has run on val m = "a" - "b", whose binary expression is Unknown,
\* and m is String as before
ResolvedEntryKeptOverUnknownResult ==
    /\ runs = 1
    /\ input.declaration = <<<<"v","a","l"," ","m"," ","="," ","\"","a","\""," ","-"," ","\"","b","\"">>>>
    /\ InferBinaryExpressionType(<<"\"","a","\""," ","-"," ","\"","b","\"">>, types)
           = Some(MakeKind("Unknown"))
    /\ types[SVarNameM] = MakeKind("String")

\* the document declares the function f, before or after the declaration of r
DeclaresF == input.before = <<SFunF>> \/ input.after = <<SFunF>>

\* the kind of the entry of y when the initializer pass reaches the
\* declaration of r: Int when val y = 5 stands before it; otherwise what the
\* map the run started from holds for y; otherwise the Unknown every declared
\* variable is entered with, or nothing
KindOfEntryOfY ==
    IF input.before = <<SValY>> THEN "Int"
    ELSE IF MapHas(lastRun.types, <<"y">>) THEN lastRun.types[<<"y">>].kind
    ELSE IF input.after = <<SValY>> THEN "Unknown"
    ELSE "Unit"

\* the kind the priority rules give the expression of the input, where a
\* call of a function without a recorded return type gives unrecorded
RuleKind(unrecorded) ==
    IF input.expr \in StringLiterals THEN "String"
    ELSE IF input.expr \in BoolLiterals THEN "Bool"
    ELSE IF input.expr \in NumericLiterals THEN "Int"
    ELSE IF input.expr \in ListExprs THEN "List"
    ELSE IF input.expr \in MapExprs THEN "MutableMap"
    ELSE IF input.expr \in SetExprs THEN "MutableSet"
    ELSE IF input.expr \in CustomExprs THEN "Custom"
    ELSE IF input.expr \in CallsOfF /\ DeclaresF THEN "Int"
    ELSE IF input.expr \in CallExprs THEN unrecorded
    ELSE IF input.expr = <<"y">> THEN KindOfEntryOfY
    ELSE IF input.expr = <<"z">> THEN "Unit"
    ELSE "Unknown"

ConstructedType(expr) ==
    IF expr = <<"L","i","s","t","<","I","n","t",">",".","n","e","w","(",")">>
    THEN MakeGeneric("List", <<MakeKind("Int")>>)
    ELSE IF expr = <<"L","i","s","t","<","L","i","s","t","<","I","n","t",">",">",".","n","e","w","(",")">>
    THEN MakeGeneric("List", <<MakeGeneric("List", <<MakeKind("Int")>>)>>)
    ELSE IF expr \in ListExprs
    THEN MakeGeneric("List", <<MakeKind("Unknown")>>)
    ELSE IF expr = <<"M","u","t","a","b","l","e","M","a","p",".","n","e","w","(",")">>
    THEN MakeGeneric("MutableMap", <<MakeKind("Unknown"), MakeKind("Unknown")>>)
    ELSE IF expr \in MapExprs
    THEN MakeGeneric("MutableMap", <<MakeKind("String"), MakeKind("Int")>>)
    ELSE IF expr \in SetExprs
    THEN MakeGeneric("MutableSet", <<MakeKind("Unknown")>>)
    ELSE IF expr = <<"F","o","o","<","I","n","t",">",".","n","e","w","(",")">>
    THEN Make("Custom", Some(<<MakeKind("Int")>>), Some(SFoo), None)
    ELSE Make("Custom", None, Some(SFoo), None)

\* C20: the generic arguments of a constructor call's type are exactly the
\* types written between the angle brackets that directly follow the type
\* name, matched by nesting depth; a collection constructor without a generic
\* list has Unknown in every slot, one for List and MutableSet and two for
\* MutableMap, whatever its call arguments hold.
GenericsFromBracketsAfterTypeName ==
    RanOnText /\ IsInitializerInput
        /\ input.expr \in CollectionExprs \cup CustomExprs =>
            TypeOfR = ConstructedType(input.expr)

-----------------------------------------------------------------------------
(* Annotated declarations: an actor with one declaration of r, with or     *)
(* without a type annotation and with or without an initializer, analysed  *)
(* by inferFromText pass by pass.                                          *)

\* type strings without generic arguments
SimpleTypeStrings ==
    { <<"I","n","t">>,
      <<"S","t","r","i","n","g">>,
      <<"F","o","o">> }

\* type strings of the form Name<Args>
GenericTypeStrings ==
    { <<"L","i","s","t","<","I","n","t",">">>,
      <<"L","i","s","t","<","F","o","o",">">>,
      <<"M","u","t","a","b","l","e","S","e","t","<","S","t","r","i","n","g",">">>,
      <<"M","u","t","a","b","l","e","M","a","p","<","S","t","r","i","n","g",","," ","I","n","t",">">>,
      <<"M","u","t","a","b","l","e","M","a","p","<","S","t","r","i","n","g",",","I","n","t",">">>,
      <<"M","u","t","a","b","l","e","M","a","p"," ","<","S","t","r","i","n","g",","," ","I","n","t",">">>,
      <<"M","u","t","a","b","l","e","M","a","p","<","S","t","r","i","n","g",","," ","L","i","s","t","<","I","n","t",">",">">>,
      <<"M","u","t","a","b","l","e","M","a","p","<","L","i","s","t","<","I","n","t",">",","," ","S","t","r","i","n","g",">">>,
      <<"L","i","s","t","<","L","i","s","t","<","I","n","t",">",">">>,
      <<"F","o","o","<","I","n","t",","," ","S","t","r","i","n","g",","," ","B","o","o","l",">">>,
      <<"M","u","t","a","b","l","e","M","a","p","<","M","u","t","a","b","l","e","M","a","p","<","S","t","r","i","n","g",","," ","I","n","t",">",","," ","L","i","s","t","<","I","n","t",">",">">>,
      <<"F","o","o","<","(","I","n","t",","," ","S","t","r","i","n","g",")",","," ","I","n","t",">">>,
      <<"F","o","o","<","[","I","n","t",","," ","S","t","r","i","n","g","]",","," ","I","n","t",">">>,
      <<"F","o","o","<","{","I","n","t",","," ","S","t","r","i","n","g","}",","," ","I","n","t",">">>,
      <<"L","i","s","t","<","I","n","t",",",">">>,
      <<"L","i","s","t","<",",","I","n","t",">">>,
      <<"F","o","o","<","I","n","t",")",","," ","S","t","r","i","n","g",">">> }

TypeStrings == SimpleTypeStrings \cup GenericTypeStrings

\* initializer expressions of every kind the expression rules know, and two
\* binary expressions
AnnotatedExprs ==
    { <<"5">>,
      <<"\"","h","i","\"">>,
      <<"t","r","u","e">>,
      <<"L","i","s","t","<","I","n","t",">",".","n","e","w","(",")">>,
      <<"M","u","t","a","b","l","e","M","a","p","<","S","t","r","i","n","g",","," ","I","n","t",">",".","n","e","w","(",")">>,
      <<"F","o","o",".","n","e","w","(",")">>,
      <<"y">>,
      <<"f","(",")">>,
      <<"1"," ","+"," ","2">>,
      <<"\"","a","\""," ","+"," ","\"","b","\"">> }

\* annotation and initializer are optional (None: absent), not both absent
AnnotationInputs ==
    {in \in [before : {<<>>, <<SValY>>},
             keyword : {KwVar, KwVal},
             annotation : {None} \cup {Some(s) : s \in TypeStrings},
             initializer : {None} \cup {Some(e) : e \in AnnotatedExprs}] :
        in.annotation # None \/ in.initializer # None}

\* var|val r[: Type][ = expr]
DeclarationOfR(in) ==
    in.keyword \o <<" ","r">>
        \o (IF in.annotation = None THEN <<>> ELSE <<":"," ">> \o in.annotation[1])
        \o (IF in.initializer = None THEN <<>> ELSE <<" ","="," ">> \o in.initializer[1])

\* actor A {
\* <before>
\* <declaration of r>
AnnotationDoc(in) == <<SActorA>> \o in.before \o <<DeclarationOfR(in)>>

InitAnnotations ==
    /\ input \in AnnotationInputs
    /\ text = AnnotationDoc(input)
    /\ ast = ParseLines(text)
    /\ ScopeIdle
    /\ EnginesIdle
    /\ MergeIdle
    /\ RegistryIdle
    /\ ServiceIdle

NextAnnotations ==
    \/ InferFromTextBegin
    \/ ScanCollectionUsagesStep
    \/ InferFromTextEnd

SpecAnnotations == InitAnnotations /\ [][NextAnnotations]_vars

IsAnnotationInput == input # <<>> /\ "annotation" \in DOMAIN input

\* the declaration passes of the run have written the map
DeclarationsScanned == lastRun # <<>>

\* nesting depth in front of position k of s: brackets opened less brackets
\* closed, of all four kinds
DepthBefore(s, k) ==
    Cardinality({j \in 1..(k - 1) : IsOpenBracket(s[j])})
        - Cardinality({j \in 1..(k - 1) : IsCloseBracket(s[j])})

\* the positions of the commas of depth zero, in ascending order, closed by
\* the position after the last character
RECURSIVE CutsFrom(_, _)
CutsFrom(s, k) ==
    IF k > Len(s) THEN <<Len(s) + 1>>
    ELSE IF s[k] = "," /\ DepthBefore(s, k) = 0 THEN <<k>> \o CutsFrom(s, k + 1)
    ELSE CutsFrom(s, k + 1)

\* the trimmed pieces of s between the commas of depth zero; a last piece of
\* white space only is no argument
TopLevelPieces(s) ==
    LET cuts == CutsFrom(s, 1)
        piece(i) == Trim(SubSeq(s, IF i = 1 THEN 1 ELSE cuts[i - 1] + 1, cuts[i] - 1))
        n == IF piece(Len(cuts)) = <<>> THEN Len(cuts) - 1 ELSE Len(cuts)
    IN  [i \in 1..n |-> piece(i)]

\* the text between the first < and the closing > of a generic type string
ArgsOf(typeStr) ==
    SubSeq(typeStr, Min({k \in 1..Len(typeStr) : typeStr[k] = "<"}) + 1,
           Len(typeStr) - 1)

\* the annotated type without its flag
Unflagged(t) == [t EXCEPT !.hasTypeAnnotation = None]

\* C21: parseTypeString splits the arguments of Name<Args> only at the commas
\* of nesting depth zero, the depth counted across (), [], {} and <>, and
\* parses each piece recursively; MutableMap<String, List<Int>> has exactly
\* the two arguments String and List<Int>.
GenericArgumentsSplitAtDepthZero ==
    /\ DeclarationsScanned
    /\ IsAnnotationInput
    /\ input.annotation # None
    /\ input.annotation[1] \in GenericTypeStrings
    => /\ TypeOfR.generics # None
       /\ LET pieces == TopLevelPieces(ArgsOf(input.annotation[1]))
          IN  TypeOfR.generics[1] =
                  [i \in 1..Len(pieces) |-> ParseTypeString(pieces[i])]
       /\ input.annotation[1] = <<"M","u","t","a","b","l","e","M","a","p","<","S","t","r","i","n","g",","," ","L","i","s","t","<","I","n","t",">",">">>
            => Unflagged(TypeOfR) =
                   MakeGeneric("MutableMap",
                       <<MakeKind("String"),
                         MakeGeneric("List", <<MakeKind("Int")>>)>>)

\* var r: MutableMap<String, List<Int>> was scanned and r has two arguments,
\* the second with one argument of its own
NestedGenericKeptWhole ==
    /\ DeclarationsScanned
    /\ IsAnnotationInput
    /\ input.annotation = Some(<<"M","u","t","a","b","l","e","M","a","p","<","S","t","r","i","n","g",","," ","L","i","s","t","<","I","n","t",">",">">>)
    /\ Len(TypeOfR.generics[1]) = 2
    /\ TypeOfR.generics[1][2].kind = "List"
    /\ Len(TypeOfR.generics[1][2].generics[1]) = 1

\* C22: var|val r: Type = expr records the parsed annotation with the
\* annotated flag set, whatever expr is; var|val r: Type records the parsed
\* annotation with the flag set; var|val r = expr records the type inferred
\* from expr.  The annotated entries stay to the end of the run.
AnnotationRecordedElseInferred ==
    DeclarationsScanned /\ IsAnnotationInput =>
        /\ input.annotation # None =>
              /\ TypeOfR.hasTypeAnnotation = Some(TRUE)
              /\ Unflagged(TypeOfR) = ParseTypeString(input.annotation[1])
        /\ input.annotation = None /\ scanned = 0 =>
              TypeOfR = InferExpressionType(input.initializer[1],
                                            functionReturnTypes, types)

\* val r: String = 5 was scanned and r is the annotated String, not Int
AnnotationWinsOverInitializer ==
    /\ DeclarationsScanned
    /\ IsAnnotationInput
    /\ input.annotation = Some(SString)
    /\ input.initializer = Some(<<"5">>)
    /\ TypeOfR.kind = "String"
    /\ TypeOfR.hasTypeAnnotation = Some(TRUE)

-----------------------------------------------------------------------------
(* Declarations initialised with an expression of signed operands: every    *)
(* operand may carry one sign directly in front of it.                      *)

\* the most operators in a generated expression of signed operands
MaxSignedOperators == 2

\* no sign, minus, plus
Signs == {<<>>, <<"-">>, <<"+">>}

\* an operator that is also a sign and one that is not
SignedOperators == {<<"-">>, <<"*">>}

SFive == <<"5">>

\* generated expressions: the operand 5 with a sign per operand
SignedInputs ==
    UNION {[signs : [1..(n + 1) -> Signs],
            between : [1..n -> SignedOperators]] : n \in 1..MaxSignedOperators}

\* expressions written out, with + and / and without blanks
SignedExamples ==
    { <<"-","5"," ","+"," ","1","0">>,
      <<"1"," ","-"," ","-","2">>,
      <<"-","5","+","1","0">>,
      <<"1","-","-","2">>,
      <<"5"," ","+"," ","-","5">>,
      <<"5","/","+","5">>,
      <<"5"," ","*"," ","-","x">>,
      <<"+","5">> }

\* the tokens the examples are written from
ExampleTokens(e) ==
    IF e = <<"-","5"," ","+"," ","1","0">> \/ e = <<"-","5","+","1","0">>
    THEN <<<<"-","5">>, <<"+">>, <<"1","0">>>>
    ELSE IF e = <<"1"," ","-"," ","-","2">> \/ e = <<"1","-","-","2">>
    THEN <<<<"1">>, <<"-">>, <<"-","2">>>>
    ELSE IF e = <<"5"," ","+"," ","-","5">> THEN <<SFive, <<"+">>, <<"-","5">>>>
    ELSE IF e = <<"5","/","+","5">> THEN <<SFive, <<"/">>, <<"+","5">>>>
    ELSE IF e = <<"5"," ","*"," ","-","x">> THEN <<SFive, <<"*">>, <<"-","x">>>>
    ELSE <<<<"+","5">>>>

\* sign operand, operator, sign operand, ...
SignedTokens(in) ==
    [k \in 1..(2 * Len(in.between) + 1) |->
        IF k % 2 = 1 THEN in.signs[(k + 1) \div 2] \o SFive
        ELSE in.between[k \div 2]]

\* the tokens joined by single blanks
RECURSIVE JoinTokens(_, _)
JoinTokens(tokens, n) ==
    IF n = 1 THEN tokens[1]
    ELSE JoinTokens(tokens, n - 1) \o <<" ">> \o tokens[n]

\* the expression an input stands for
SignedExpr(in) ==
    IF "example" \in DOMAIN in THEN in.example
    ELSE JoinTokens(SignedTokens(in), 2 * Len(in.between) + 1)

\* the token list an input was written from
WrittenTokens(in) ==
    IF "example" \in DOMAIN in THEN ExampleTokens(in.example) ELSE SignedTokens(in)

\* actor A {
\* val r = <expression>
SignedDoc(in) == <<SActorA, SValR \o SignedExpr(in)>>

InitSigned ==
    /\ input \in SignedInputs \cup [example : SignedExamples]
    /\ text = SignedDoc(input)
    /\ ast = ParseLines(text)
    /\ ScopeIdle
    /\ EnginesIdle
    /\ MergeIdle
    /\ RegistryIdle
    /\ ServiceIdle

NextSigned ==
    \/ InferFromTextBegin
    \/ ScanCollectionUsagesStep
    \/ InferFromTextEnd

SpecSigned == InitSigned /\ [][NextSigned]_vars

IsSignedInput == input # <<>> /\ ("signs" \in DOMAIN input \/ "example" \in DOMAIN input)

\* the binary-operation pass of the run is done
BinaryOpsScanned == lastRun # <<>> /\ runs = 1

\* operand, operator, operand, ..., operand
Alternates(tokens) ==
    /\ Len(tokens) % 2 = 1
    /\ \A k \in 1..Len(tokens) :
          (k % 2 = 0) <=> tokens[k] \in {<<"+">>, <<"-">>, <<"*">>, <<"/">>}

\* every operand of the token list is a signed or unsigned integer
AllIntOperands(tokens) ==
    \A k \in 1..Len(tokens) :
        k % 2 = 1 =>
            /\ tokens[k] # <<>>
            /\ \A j \in 1..Len(tokens[k]) :
                  \/ tokens[k][j] \in Digit
                  \/ j = 1 /\ Len(tokens[k]) > 1 /\ tokens[k][j] \in {"+", "-"}

\* C23: a + or - that starts the expression or directly follows an operator
\* is part of the next operand token and no operator token, so the token
\* list alternates operand, operator, operand; with integer operands the
\* declaration folds to Int, as -5 + 10 and 1 - -2 do.
UnarySignJoinsOperand ==
    BinaryOpsScanned /\ IsSignedInput =>
        /\ TokenizeExpression(SignedExpr(input)) = WrittenTokens(input)
        /\ Alternates(TokenizeExpression(SignedExpr(input)))
        /\ AllIntOperands(WrittenTokens(input)) => TypeOfR = MakeKind("Int")

\* val r = 1 - -2 was run: three tokens, the last one -2, and r is Int
SignAfterOperatorFoldsToInt ==
    /\ BinaryOpsScanned
    /\ IsSignedInput
    /\ "example" \in DOMAIN input
    /\ input.example = <<"1"," ","-"," ","-","2">>
    /\ Len(TokenizeExpression(input.example)) = 3
    /\ TokenizeExpression(input.example)[3] = <<"-","2">>
    /\ TypeOfR = MakeKind("Int")

-----------------------------------------------------------------------------
(* Block lines: an actor whose body is written from lines that hold the     *)
(* words while, if, else and for as keywords, inside a string literal and   *)
(* inside longer identifiers.                                               *)

\* the most lines below the actor line
MaxBlockLines == 3

SNotify == <<"n","o","t","i","f","y","(",")">>

\* the lines the body is made of
BlockBodyLines ==
    { <<"s"," ","="," ","\"","i","f","\"">>,
      <<"n","o","t","i","f","y","(",")">>,
      <<"v","a","r"," ","x","i","f">>,
      <<"f","u","n"," ","f","o","r","t","h","(",")"," ","{">>,
      <<"w","h","i","l","e"," ","(","x",")"," ","{">>,
      <<"}">>,
      <<"v","a","r"," ","x">>,
      <<"p","r","i","n","t","(","x",")">>,
      <<"}"," ","e","l","s","e"," ","{">> }

BlockDocs ==
    {<<SActorA>> \o body :
        body \in UNION {[1..n -> BlockBodyLines] : n \in 1..MaxBlockLines}}

InitBlocks ==
    /\ text \in BlockDocs
    /\ input = [body |-> Tail(text)]
    /\ ast = <<>>
    /\ ScopeIdle
    /\ EnginesIdle
    /\ MergeIdle
    /\ RegistryIdle
    /\ ServiceIdle

NextBlocks ==
    \/ Parse
    \/ \E line \in 0..(Len(text) - 1) : SymbolsAtLine(line)

SpecBlocks == InitBlocks /\ [][NextBlocks]_vars

IsBlockInput == input # <<>> /\ "body" \in DOMAIN input

\* line i lies below the first line of an actor, function or block node
InsideBlock(tree, i) ==
    \E n \in NodesOfKind(tree, {"actor", "function", "block"}) :
        tree[n].startLine < i /\ i <= tree[n].endLine

\* the line holds one of the four words anywhere
HoldsBlockWord(line) ==
    \E w \in {<<"w","h","i","l","e">>, <<"i","f">>, <<"e","l","s","e">>,
              <<"f","o","r">>} : Includes(line, w)

\* node b is a proper ancestor of node id
RECURSIVE Below(_, _, _)
Below(tree, id, b) ==
    /\ tree[id].parent # 0
    /\ tree[id].parent = b \/ Below(tree, tree[id].parent, b)

\* every function or variable line of the span of b below its first line
\* has its node below b
ContentParsed(tree, lines, b) ==
    \A j \in (tree[b].startLine + 1)..tree[b].endLine :
        /\ FunMatch(lines[j + 1]) # <<>> =>
              \E c \in NodesOfKind(tree, {"function"}) :
                  tree[c].line = j /\ Below(tree, c, b)
        /\ FunMatch(lines[j + 1]) = <<>> /\ VarMatch(lines[j + 1]) # <<>> =>
              \E c \in NodesOfKind(tree, {"variable"}) :
                  tree[c].line = j /\ Below(tree, c, b)

\* C24: inside a block, a line that is neither a function definition nor a
\* var/val declaration and that holds while, if, else or for anywhere (also
\* in a string literal or a longer identifier) gives a block node block_<i>
\* that starts at that line, and the lines of its span are parsed below it.
BlockWordOpensNestedBlock ==
    ast # <<>> /\ IsBlockInput =>
        \A i \in 0..(Len(text) - 1) :
            /\ InsideBlock(ast, i)
            /\ FunMatch(text[i + 1]) = <<>>
            /\ VarMatch(text[i + 1]) = <<>>
            /\ HoldsBlockWord(text[i + 1])
            => \E b \in NodesOfKind(ast, {"block"}) :
                  /\ ast[b].line = i
                  /\ ast[b].startLine = i
                  /\ ast[b].name = <<"b","l","o","c","k","_">> \o IntToChars(i)
                  /\ ContentParsed(ast, text, b)

\* notify() opened a block and the declaration below it is its child
IdentifierOpensBlock ==
    /\ ast # <<>>
    /\ IsBlockInput
    /\ \E b \in NodesOfKind(ast, {"block"}) :
          /\ text[ast[b].line + 1] = SNotify
          /\ \E c \in NodesOfKind(ast, {"variable"}) : ast[c].parent = b

-----------------------------------------------------------------------------
(* DocumentInferenceService (src/unnamed/part_002): the service owns one    *)
(* engine of src/src/inference.ts and a cache by uri; the workspace opens,  *)
(* changes and closes documents and the providers ask for results.  Maps    *)
(* are objects here: maps holds the contents of every Map created since     *)
(* construction and a reference is an index into it.  An engine of          *)
(* part_012 is called directly on the open documents next to the service.   *)

Uris == {"u1", "u2"}

\* the texts a document can hold
ServiceTexts == {<<SActorA, SValY>>, <<SActorA, SVarX>>}

\* the highest version a document reaches
MaxVersion == 2

\* the most inferFromText calls of both engines together
MaxAnalyses == 2

\* the field keeps the Map it holds
NewMapRefReusing(heap, ref) == ref

\* new Map(): the reference of the object created, ref the reference the
\* field held before
NewMapRef(heap, ref) == Len(heap) + 1

\* writing the contents of the object at ref, created when it is new
HeapSet(heap, ref, contents) ==
    IF ref = Len(heap) + 1 THEN Append(heap, contents)
    ELSE [heap EXCEPT ![ref] = contents]

\* a listener that removes nothing
CacheDeleteNothing(entries, uri) == entries

\* this.cache.delete(uri)
CacheDelete(entries, uri) == [w \in (DOMAIN entries) \ {uri} |-> entries[w]]

\* cached?.version === version
CacheHit(entries, uri, version) ==
    MapHas(entries, uri) /\ entries[uri].version = version

\* the workspace opens a document at version 1; the service is not told
OpenTextDocument(u, doc) ==
    /\ documents[u] = None
    /\ documents' = [documents EXCEPT ![u] = Some([text |-> doc, version |-> 1])]
    /\ UNCHANGED <<input, parserVars, scopeVars, monoVars, modularVars, runVars,
                   mergeVars, registryVars, heapVars, cache, returned>>

\* an edit gives the document its next version and the listener of
\* onDidChangeTextDocument runs
DidChangeTextDocument(u, doc) ==
    /\ documents[u] # None
    /\ documents[u][1].version < MaxVersion
    /\ documents' = [documents EXCEPT
                        ![u] = Some([text |-> doc,
                                     version |-> documents[u][1].version + 1])]
    /\ cache' = CacheDelete(cache, u)
    /\ UNCHANGED <<input, parserVars, scopeVars, monoVars, modularVars, runVars,
                   mergeVars, registryVars, heapVars, returned>>

\* the document is closed and the listener of onDidCloseTextDocument runs
DidCloseTextDocument(u) ==
    /\ documents[u] # None
    /\ documents' = [documents EXCEPT ![u] = None]
    /\ cache' = CacheDelete(cache, u)
    /\ UNCHANGED <<input, parserVars, scopeVars, monoVars, modularVars, runVars,
                   mergeVars, registryVars, heapVars, returned>>

\* DocumentInferenceService.getInferenceResult on the open document u
GetInferenceResult(u) ==
    /\ documents[u] # None
    /\ IF CacheHit(cache, u, documents[u][1].version)
       THEN /\ returned' = [ast |-> cache[u].ast, types |-> cache[u].types, uri |-> u]
            /\ UNCHANGED <<input, parserVars, scopeVars, monoVars, modularVars,
                           runVars, mergeVars, registryVars, heapVars, documents,
                           cache>>
       ELSE /\ runs < MaxAnalyses
            /\ \E doc \in {documents[u][1]} :
               \E tree \in {ParseLines(doc.text)} :
               \E r \in {RunPasses(doc.text, tree, EmptyMap, EmptyMap)} :
               \E ref \in {NewMapRef(maps, typesRef)} :
                   /\ text' = doc.text
                   /\ ast' = tree
                   /\ types' = r.types
                   /\ functionReturnTypes' = r.functionReturnTypes
                   /\ result' = r.types
                   /\ lastRun' = [text |-> doc.text, types |-> EmptyMap,
                                  functionReturnTypes |-> EmptyMap,
                                  engine |-> "monolithic"]
                   /\ runs' = runs + 1
                   /\ scanned' = Len(doc.text)
                   /\ typesRef' = ref
                   /\ maps' = HeapSet(maps, ref, r.types)
                   /\ returnedRefs' = returnedRefs \cup {ref}
                   /\ cache' = MapSet(cache, u, [ast |-> tree,
                                                 types |-> ref, version |-> doc.version])
                   /\ returned' = [ast |-> tree, types |-> ref, uri |-> u]
                   /\ UNCHANGED <<input, scopeVars, modularVars, mergeVars,
                                  registryVars, engineTypesRef, documents>>

\* inferFromText of an engine of part_012 on the text and tree of the open
\* document u: the field gets a new map, the passes write the map the
\* components hold, the new map is returned
EngineInferFromTextOn(u) ==
    /\ documents[u] # None
    /\ runs < MaxAnalyses
    /\ \E doc \in {documents[u][1]} :
       \E tree \in {ParseLines(doc.text)} :
       \E r \in {RunPasses(doc.text, tree, sharedTypes, sharedFunctionReturnTypes)} :
       \E ref \in {NewMapRef(maps, engineTypesRef)} :
           /\ text' = doc.text
           /\ ast' = tree
           /\ engineTypes' = EmptyMap
           /\ engineFunctionReturnTypes' = EmptyMap
           /\ sharedTypes' = r.types
           /\ sharedFunctionReturnTypes' = r.functionReturnTypes
           /\ result' = EmptyMap
           /\ lastRun' = [text |-> doc.text, types |-> sharedTypes,
                          functionReturnTypes |-> sharedFunctionReturnTypes,
                          engine |-> "modular"]
           /\ runs' = runs + 1
           /\ scanned' = Len(doc.text)
           /\ engineTypesRef' = ref
           /\ maps' = HeapSet(HeapSet(maps, ref, EmptyMap), SharedTypesRef, r.types)
           /\ returnedRefs' = returnedRefs \cup {ref}
           /\ UNCHANGED <<input, scopeVars, monoVars, mergeVars, registryVars,
                          typesRef, serviceVars>>

InitService ==
    /\ input = <<>>
    /\ text = <<>>
    /\ ast = <<>>
    /\ ScopeIdle
    /\ EnginesIdle
    /\ MergeIdle
    /\ RegistryIdle
    /\ ServiceIdle

NextService ==
    \E u \in Uris :
        \/ \E doc \in ServiceTexts : OpenTextDocument(u, doc)
        \/ \E doc \in ServiceTexts : DidChangeTextDocument(u, doc)
        \/ DidCloseTextDocument(u)
        \/ GetInferenceResult(u)
        \/ EngineInferFromTextOn(u)

SpecService == InitService /\ [][NextService]_vars

\* the types the passes of inference.ts give the text of the open document u
TypesOfDocument(u) ==
    RunPasses(documents[u][1].text, ParseLines(documents[u][1].text),
              EmptyMap, EmptyMap).types

\* a getInferenceResult call has returned in this step
Answers == returned' # returned

\* the document u is edited or closed in this step
ChangesOrCloses(u) == documents[u] # None /\ documents'[u] # documents[u]

\* C25: whatever requests, edits and closings came before, getInferenceResult
\* returns the tree and the type map of the document's text at its current
\* version; an entry of the cache is returned only when its version is the
\* document's; an edit or a closing removes the entry of that document and
\* no other.
ServiceReturnsCurrentVersion ==
    [][/\ Answers =>
            /\ returned'.ast = ParseLines(documents[returned'.uri][1].text)
            /\ maps'[returned'.types] = TypesOfDocument(returned'.uri)
            /\ MapHas(cache, returned'.uri)
                 /\ returned'.types = cache[returned'.uri].types
               => cache[returned'.uri].version
                      = documents[returned'.uri][1].version
       /\ \A u \in Uris :
            ChangesOrCloses(u) =>
                /\ DOMAIN cache' = (DOMAIN cache) \ {u}
                /\ \A w \in DOMAIN cache' : cache'[w] = cache[w]
      ]_vars

\* u1 was analysed, edited and analysed again: the service returned the
\* entry of version 2, which holds the second map the engine created
EditedDocumentAnalysedAgain ==
    /\ returned # <<>>
    /\ returned.uri = "u1"
    /\ documents["u1"] # None
    /\ documents["u1"][1].version = 2
    /\ CacheHit(cache, "u1", 2)
    /\ returned.types = cache["u1"].types
    /\ returnedRefs = {3, 4}
    /\ returned.types = 4
    /\ maps[3] # maps[4]

\* C29: the map one inferFromText call returned is never modified by a
\* later call, so the maps the service has cached keep their contents while
\* further documents are analysed.
ReturnedMapsNeverModified ==
    [][\A ref \in returnedRefs \cup {cache[u].types : u \in DOMAIN cache} :
          maps'[ref] = maps[ref]]_vars

\* two maps were returned and cached, and they hold different types
CachedMapsOfTwoDocuments ==
    /\ Cardinality(returnedRefs) = 2
    /\ MapHas(cache, "u1")
    /\ MapHas(cache, "u2")
    /\ maps[cache["u1"].types] # maps[cache["u2"].types]
    /\ maps[cache["u1"].types] # EmptyMap
    /\ maps[cache["u2"].types] # EmptyMap

-----------------------------------------------------------------------------
(* mergeTypes on descriptors of user types, and typeToString of the result  *)

SBar == <<"B","a","r">>

\* typeToString of src/unnamed/part_012 (the same code is in inference.ts)
RECURSIVE TypeToString(_)
RECURSIVE JoinTypeStrings(_, _)
JoinTypeStrings(generics, n) ==
    IF n = 1 THEN TypeToString(generics[1])
    ELSE JoinTypeStrings(generics, n - 1) \o <<",", " ">>
            \o TypeToString(generics[n])

TypeToString(t) ==
    LET shown == IF t.readonlyName # None THEN t.readonlyName[1]
                 ELSE KindChars(t.kind)
    IN  IF t.generics = None \/ t.generics[1] = <<>> THEN shown
        ELSE shown \o <<"<">>
                \o JoinTypeStrings(t.generics[1], Len(t.generics[1]))
                \o <<">">>

\* descriptors of the user types Foo and Bar: plain, with one and with two
\* generic arguments
CustomTypes ==
    {Make("Custom", None, Some(n), None) : n \in {SFoo, SBar}}
        \cup {Make("Custom", Some(<<g>>), Some(n), None) :
                 n \in {SFoo, SBar}, g \in BaseTypes}
        \cup {Make("Custom", Some(<<g, MakeKind("Int")>>), Some(n), None) :
                 n \in {SFoo, SBar}, g \in BaseTypes}

InitCustomMerge ==
    /\ input = [merge |-> "Custom"]
    /\ text = <<>>
    /\ ast = <<>>
    /\ ScopeIdle
    /\ EnginesIdle
    /\ mergeArgs \in CustomTypes \X CustomTypes
    /\ merged = <<>>
    /\ RegistryIdle
    /\ ServiceIdle

NextCustomMerge == ApplyMergeTypes

SpecCustomMerge == InitCustomMerge /\ [][NextCustomMerge]_vars

IsCustomMergeInput == input # <<>> /\ "merge" \in DOMAIN input

\* C26: merging two descriptors of the same user type that both carry
\* generic arguments gives a descriptor that still carries the type's
\* display name, and typeToString of it starts with that name.
MergedCustomKeepsName ==
    /\ merged # <<>>
    /\ IsCustomMergeInput
    /\ mergeArgs[1].readonlyName = mergeArgs[2].readonlyName
    /\ mergeArgs[1].generics # None
    /\ mergeArgs[2].generics # None
    => /\ merged[1].readonlyName = mergeArgs[1].readonlyName
       /\ StartsWithAt(TypeToString(merged[1]), 1, mergeArgs[1].readonlyName[1])

-----------------------------------------------------------------------------
(* Go to definition: a document is parsed and the resolver is asked for    *)
(* the definition of a name.                                               *)

SRoot == <<"r","o","o","t">>
SBlock1 == <<"b","l","o","c","k","_","1">>

\* the lines the documents are made of
DefinitionLines ==
    { <<"a","c","t","o","r"," ","A"," ","{">>,
      <<"a","c","t","o","r"," ","r","o","o","t"," ","{">>,
      <<"v","a","r"," ","r","o","o","t">>,
      <<"v","a","l"," ","b","l","o","c","k","_","1">>,
      <<"i","f"," ","(","x",")"," ","{">>,
      <<"f","u","n"," ","f","(",")"," ","{">>,
      <<"c","l","a","s","s"," ","C">>,
      <<"}">> }

DefinitionDocs == UNION {[1..n -> DefinitionLines] : n \in 1..MaxLines}

\* the names asked for
DefinitionNames ==
    {SRoot, SBlock1, <<"f">>, <<"A">>, <<"C">>, <<"y">>}

InitDefinition ==
    /\ input = [definition |-> "names"]
    /\ text \in DefinitionDocs
    /\ ast = <<>>
    /\ ScopeIdle
    /\ EnginesIdle
    /\ MergeIdle
    /\ RegistryIdle
    /\ ServiceIdle

\* ScopeResolver.getDefinition(ast, name)
DefinitionOf(name) ==
    /\ ast # <<>>
    /\ soughtName' = <<name>>
    /\ foundNode' = GetDefinition(ast, name)
    /\ UNCHANGED <<input, parserVars, queryLine, symbols, monoVars,
                   modularVars, runVars, mergeVars, registryVars,
                   heapVars, serviceVars>>

NextDefinition ==
    \/ Parse
    \/ \E name \in DefinitionNames : DefinitionOf(name)

SpecDefinition == InitDefinition /\ [][NextDefinition]_vars

DeclarationKinds == {"variable", "function", "class", "actor"}

\* the tree holds a declaration of the name
Declared(tree, name) ==
    \E k \in 1..Len(tree) :
        tree[k].kind \in DeclarationKinds /\ tree[k].name = name

\* C27: when the tree holds a variable, a function, a class or an actor of
\* the name asked for, getDefinition returns a node of one of these kinds
\* with that name, never the program root or a block node
DefinitionIsADeclaration ==
    /\ soughtName # <<>>
    /\ Declared(ast, soughtName[1])
    => /\ foundNode # <<>>
       /\ foundNode[1].kind \in DeclarationKinds
       /\ foundNode[1].name = soughtName[1]

-----------------------------------------------------------------------------
(* Declaration lines of the parsed tree *)

\* C28: no two nodes below the root have the same declaration line
LineDeclaredOnce ==
    ast # <<>> =>
        \A j, k \in 2..Len(ast) : j # k => ast[j].line # ast[k].line

-----------------------------------------------------------------------------
(* Instances whose generic arguments are named like placeholders: the      *)
(* methods of List<a>, MutableSet<a> and MutableMap<a, b> are asked for.   *)

\* a type written as a bare name, as parseTypeString reads it
Named(name) == TInfo("Custom", None, Some(name))

\* the generic arguments of the instances
PlaceholderArgs ==
    { Named(<<"K">>), Named(<<"V">>), Named(<<"T">>), Named(SFoo),
      Generic(<<"K">>), Generic(<<"V">>),
      MakeKind("Int"), MakeKind("String"),
      MakeGeneric("List", <<Named(<<"V">>)>>),
      MakeGeneric("List", <<Named(<<"K">>)>>) }

PlaceholderInstances ==
    {MakeGeneric("List", <<a>>) : a \in PlaceholderArgs}
    \cup {MakeGeneric("MutableSet", <<a>>) : a \in PlaceholderArgs}
    \cup {MakeGeneric("MutableMap", <<a, b>>) : a, b \in PlaceholderArgs}

InitPlaceholders ==
    /\ input = [generics |-> "placeholders"]
    /\ text = <<>>
    /\ ast = <<>>
    /\ ScopeIdle
    /\ EnginesIdle
    /\ MergeIdle
    /\ RegistryIdle
    /\ ServiceIdle

NextPlaceholders == \E typeInfo \in PlaceholderInstances : MethodsForType(typeInfo)

SpecPlaceholders == InitPlaceholders /\ [][NextPlaceholders]_vars

IsPlaceholderInput == input = [generics |-> "placeholders"]

\* C30: substitution is simultaneous: the argument put in place of one
\* placeholder is not looked up again, also when it carries the name of a
\* placeholder itself.  On MutableMap<a, b> the method get has parameter type
\* a and return type b, put has the parameter types a and b, keys returns
\* List<a> and values returns List<b>, whatever a and b are named; on List<a>
\* get returns a, and on MutableSet<a> add takes a.
SubstitutionSimultaneous ==
    IsPlaceholderInput /\ instanceType # <<>> =>
        LET gs == instanceType[1].generics[1]
        IN  /\ instanceType[1].kind = "MutableMap" =>
                  /\ MethodNamed(<<"g","e","t">>).params[1].type = gs[1]
                  /\ MethodNamed(<<"g","e","t">>).returnType = gs[2]
                  /\ MethodNamed(<<"p","u","t">>).params[1].type = gs[1]
                  /\ MethodNamed(<<"p","u","t">>).params[2].type = gs[2]
                  /\ MethodNamed(<<"k","e","y","s">>).returnType =
                         MakeGeneric("List", <<gs[1]>>)
                  /\ MethodNamed(<<"v","a","l","u","e","s">>).returnType =
                         MakeGeneric("List", <<gs[2]>>)
            /\ instanceType[1].kind = "List" =>
                  MethodNamed(<<"g","e","t">>).returnType = gs[1]
            /\ instanceType[1].kind = "MutableSet" =>
                  MethodNamed(<<"a","d","d">>).params[1].type = gs[1]

\* the methods of MutableMap<V, Int> were asked for: get takes a V and
\* returns Int
PlaceholderNamedKeyKept ==
    /\ IsPlaceholderInput
    /\ instanceType =
           <<MakeGeneric("MutableMap", <<Named(<<"V">>), MakeKind("Int")>>)>>
    /\ MethodNamed(<<"g","e","t">>).params[1].type = Named(<<"V">>)
    /\ MethodNamed(<<"g","e","t">>).returnType = MakeKind("Int")

====
